---- MODULE Spec2Model ----
(***************************************************************************)
(* State-machine models of the PaddleNLP sources under src/:               *)
(*   - GPTForGenerationAuto.forward / sample   (auto_model.py)             *)
(*   - GPTPretrainingCriterionAuto.forward     (auto_model.py)             *)
(*   - TopKProcess / TopPProcess               (auto_model.py)             *)
(*   - LMDBDataset / pad_dataset               (ernie-vil2.0/data.py)      *)
(*   - read_item                               (chatglm/server.py)         *)
(*   - chat_paper                              (function_calling_example)  *)
(*   - predict                                 (balance_classification)    *)
(*   - LMDBDataset.__init__ / __del__          (ernie-vil2.0/data.py)      *)
(*   - MultiHeadAttention.__init__             (auto_model.py)             *)
(*   - GPTModelAuto.__init__                   (auto_model.py)             *)
(*   - get_logits_processor                    (auto_model.py)             *)
(* Every component has its own specification (SpecGen, SpecData, ...); the *)
(* variables of the other components are held at their idle values.       *)
(***************************************************************************)
EXTENDS Integers, Sequences, FiniteSets, TLC

\* ------------------------------------------------------------------ bounds
\* largest batch (number of sequences decoded together)
BatchSize == 2
\* longest prompt, in tokens
MaxPrompt == 2
\* largest max_dec_len
MaxDecLen == 3
\* most image-text pairs in the pairs store
MaxSamples == 3
\* largest global_batch_size passed to pad_dataset
MaxGlobalBatch == 3
\* most pad_dataset calls on one dataset
MaxPads == 2
\* most POST requests one run of the server handles
MaxRequests == 3
\* most earlier turns in the history chat_paper is called with
MaxHistory == 2
\* largest loss_mask entry
MaxMask == 2
\* size of the vocabulary the probabilities range over
VocabSize == 3
\* probability 1.0, in the units the probabilities are counted in
ProbUnits == 3
\* largest min_tokens_to_keep
MaxKeep == 2

\* most texts predict is called with
MaxData == 3
\* largest batch_size of predict
MaxBatchSize == 4

\* largest embed_dim (hidden size), kdim and vdim
MaxEmbed == 4
\* largest num_heads
MaxHeads == 3

\* largest num_layers
MaxLayers == 3
\* largest pp_degree of the mesh
MaxStages == 2

\* Python's None, for the optional token ids of the configuration
None == -1

\* Token ids the multinomial draw can return in the model: 1 is the id that
\* eos_token_id names when it is defined, 2 is an ordinary token.
SampleIds == {1, 2}
VARIABLES
    \* ---- GPTForGenerationAuto
    configs,            \* self.configs as read by __init__ (lines 888-910)
    ops_installed,      \* whether `from ppfleetx_ops import topp_sampling` succeeds
    pc,                 \* position in forward()/sample()
    input_ids,          \* the input_ids tensor: a sequence of rows, <<>> for None
    res,                \* model_kwargs["res"]: a sequence of rows
    unfinished_flag,    \* one flag per row
    cur_len,            \* sample's cur_len
    origin_len,         \* sample's origin_len
    max_length,         \* sample's max_length argument (max_len of forward)
    nForward,           \* calls of self.gpt made so far
    nSteps,             \* executions of _post_process_ that completed
    sampleCalls,        \* calls of self.sample
    err,                \* the exception that left forward(), "none" if none
    ret,                \* the token matrix forward() returned, <<>> before
    model_inputs,       \* what the latest call of self.gpt was given (line 1132)
    attention_mask,     \* model_kwargs["attention_mask"]: [row][query][key], "0.0" attendable
    position_ids,       \* model_kwargs["position_ids"]: a sequence of rows
    cache,              \* model_kwargs["cache"]: the positions it holds, None if there is none
    drawn,              \* the tokens the latest step drew, before line 1183
    \* ---- LMDBDataset (data.py)
    txn_pairs,          \* the pairs store: key -> value
    txn_imgs,           \* the imgs store: key -> value
    number_samples,     \* self.number_samples
    number_images,      \* self.number_images
    dataset_len,        \* self.dataset_len
    global_batch_size,  \* self.global_batch_size
    tokenizer,          \* whether a tokenizer was passed to __init__ (None otherwise)
    item,               \* outcome of the latest __getitem__ call
    asked,              \* the index argument of the latest __getitem__ call
    reads,              \* the store reads of the latest __getitem__ call, in order
    padCalls,           \* pad_dataset calls made so far
    lastPad,            \* the global_batch_size argument of the latest one, 0 before
    \* ---- chatglm/server.py
    chatbot,            \* the arguments the shared Taskflow pipeline holds
    body,               \* the JSON body of the latest POST: field -> value
    results,            \* what the latest request returned
    served,             \* POST requests handled so far
    \* ---- chat_paper (function_calling_example.py)
    cpc,                \* position in chat_paper
    messages,           \* the messages list, one record per message
    response,           \* the latest ChatCompletion response
    tries,              \* the loop variable i of "for i in range(3)"
    nCreate,            \* ChatCompletion.create requests issued
    nFunc,              \* tool functions executed
    cret,               \* what chat_paper returned, or the exception it raised
    \* ---- GPTPretrainingCriterionAuto
    sequence_parallel,  \* self.sequence_parallel
    prediction_scores,  \* logits, [b][s][v], or [s][b][v] with sequence_parallel
    masked_lm_labels,   \* labels, [b][s]
    loss_mask,          \* mask, [b][s]
    loss,               \* the loss of the latest forward: numerator and denominator
    kpc,                \* "input" before the first forward, "done" after one
    \* ---- TopKProcess / TopPProcess inside _post_process_
    probs,              \* the probs tensor: one row per sequence, one entry per token
    top_k,              \* sample's top_k as line 1160 read it (None before)
    top_p,              \* sample's top_p as line 1162 read it (None before), in
                        \* probability units (ProbUnits is 1.0)
    min_tokens_to_keep, \* sample's min_tokens_to_keep
    before,             \* probs as the latest process received it
    last_process,       \* the step of lines 1160-1175 made last
    \* ---- predict (balance_classification/predict.py)
    data,               \* the texts predict is called with
    batch_size,         \* predict's batch_size
    examples,           \* the converted examples (lines 58-67)
    batches,            \* the batches (lines 70-73)
    pred_results,       \* `results` of predict: the labels collected so far
    batch_no,           \* how many batches the loop of line 81 has taken
    ppc,                \* where predict is: "call", "split", "loop", "returned"
    pred_ret,           \* what predict returned
    \* ---- LMDBDataset.__init__ / __del__ (data.py)
    disk,               \* what lmdb_path, lmdb_path/pairs and lmdb_path/imgs are on disk,
                        \* and whether lmdb can open the stores and they hold their counts
    attrs,              \* the attributes set on self so far
    opened,             \* the LMDB environments opened so far
    closed,             \* the LMDB environments __del__ closed
    lpc,                \* where the construction is
    lerr,               \* the exception that left __init__, if any
    \* ---- MultiHeadAttention.__init__ (auto_model.py)
    mha_args,           \* embed_dim, num_heads, kdim, vdim, fuse_attn_qkv of the call
    mha_self,           \* self.kdim, self.vdim, self.head_dim once set (None before)
    mha_layers,         \* the projection layers created so far
    mpc,                \* where the construction is
    merr,               \* the assertion that failed, if any
    \* ---- GPTModelAuto.__init__ (auto_model.py)
    mesh,               \* what auto_env.get_mesh() returns: no mesh, or one with its pp_degree
    gpt_args,           \* num_layers, hidden_size, num_attention_heads of the call
    gpt_attrs,          \* the plain attributes set on self so far
    sublayers,          \* the sub-layers created so far, in order
    gpc,                \* where the construction is
    gerr,               \* the exception that left __init__, if any
    \* ---- get_logits_processor and its use by sample (auto_model.py)
    lp_args,            \* the arguments get_logits_processor is called with
    processors,         \* the LogitsProcessorList it built
    step_log,           \* per step of sample, the operations of lines 1146-1178 in order
    qpc                 \* "call" before get_logits_processor returned, "sample" after

\* model_kwargs besides res, and what the latest step passed on
kwargsVars == <<model_inputs, attention_mask, position_ids, cache, drawn>>

genVars == <<configs, ops_installed, pc, input_ids, res, unfinished_flag, cur_len,
             origin_len, max_length, nForward, nSteps, sampleCalls, err, ret, kwargsVars>>

dataVars == <<txn_pairs, txn_imgs, number_samples, number_images, dataset_len,
              global_batch_size, tokenizer, item, asked, reads, padCalls, lastPad>>

serverVars == <<chatbot, body, results, served>>

chatVars == <<cpc, messages, response, tries, nCreate, nFunc, cret>>

critVars == <<sequence_parallel, prediction_scores, masked_lm_labels, loss_mask, loss, kpc>>

probVars == <<probs, top_k, top_p, min_tokens_to_keep, before, last_process>>

predictVars == <<data, batch_size, examples, batches, pred_results, batch_no, ppc, pred_ret>>

lmdbVars == <<disk, attrs, opened, closed, lpc, lerr>>

mhaVars == <<mha_args, mha_self, mha_layers, mpc, merr>>

gptVars == <<mesh, gpt_args, gpt_attrs, sublayers, gpc, gerr>>

procVars == <<lp_args, processors, step_log, qpc>>

vars == <<genVars, dataVars, serverVars, chatVars, critVars, probVars, predictVars, lmdbVars, mhaVars, gptVars, procVars>>

\* what the actions of one component leave alone
notGen == <<dataVars, serverVars, chatVars, critVars, probVars, predictVars, lmdbVars, mhaVars, gptVars, procVars>>
notData == <<genVars, serverVars, chatVars, critVars, probVars, predictVars, lmdbVars, mhaVars, gptVars, procVars>>
notServer == <<genVars, dataVars, chatVars, critVars, probVars, predictVars, lmdbVars, mhaVars, gptVars, procVars>>
notChat == <<genVars, dataVars, serverVars, critVars, probVars, predictVars, lmdbVars, mhaVars, gptVars, procVars>>
notCrit == <<genVars, dataVars, serverVars, chatVars, probVars, predictVars, lmdbVars, mhaVars, gptVars, procVars>>
notProb == <<genVars, dataVars, serverVars, chatVars, critVars, predictVars, lmdbVars, mhaVars, gptVars, procVars>>
notPredict == <<genVars, dataVars, serverVars, chatVars, critVars, probVars, lmdbVars, mhaVars, gptVars, procVars>>
notLmdb == <<genVars, dataVars, serverVars, chatVars, critVars, probVars, predictVars, mhaVars, gptVars, procVars>>
notMha == <<genVars, dataVars, serverVars, chatVars, critVars, probVars, predictVars, lmdbVars, gptVars, procVars>>
notGpt == <<genVars, dataVars, serverVars, chatVars, critVars, probVars, predictVars, lmdbVars, mhaVars, procVars>>
notProc == <<genVars, dataVars, serverVars, chatVars, critVars, probVars, predictVars, lmdbVars, mhaVars, gptVars>>

\* ----------------------------------------------------------- idle values
\* the values a component's variables keep while another component runs

\* no call of self.gpt made yet
NoInputs == [input_ids |-> <<>>, position_ids |-> <<>>, attention_mask |-> <<>>, cache |-> None]

NoItem == [status |-> "none", pixel_values |-> <<>>, input_ids |-> <<>>, index |-> 0]

IdleGen ==
    /\ configs = [max_dec_len |-> 0, decode_strategy |-> "sampling", early_finish |-> TRUE,
                  top_p |-> 100, use_topp_sampling |-> FALSE, bos_token_id |-> None,
                  eos_token_id |-> None, pad_token_id |-> None, num_return_sequences |-> 1,
                  use_cache |-> TRUE]
    /\ ops_installed = FALSE
    /\ input_ids = <<>>
    /\ pc = "idle"
    /\ res = <<>>
    /\ unfinished_flag = <<>>
    /\ cur_len = 0 /\ origin_len = 0 /\ max_length = 0
    /\ nForward = 0 /\ nSteps = 0 /\ sampleCalls = 0
    /\ err = "none"
    /\ ret = <<>>
    /\ model_inputs = NoInputs
    /\ attention_mask = <<>> /\ position_ids = <<>>
    /\ cache = None
    /\ drawn = <<>>

IdleData ==
    /\ txn_pairs = <<>> /\ txn_imgs = <<>>
    /\ number_samples = 0 /\ number_images = 0
    /\ dataset_len = 0 /\ global_batch_size = 1
    /\ tokenizer = FALSE
    /\ item = NoItem
    /\ asked = 0
    /\ reads = <<>>
    /\ padCalls = 0 /\ lastPad = 0

\* server.py 24: the pipeline as built at import; the task's own defaults
\* stand for whatever Taskflow("text2text_generation") starts with
TaskflowInit ==
    [prompt |-> "task default", decode_strategy |-> "task default",
     top_k |-> "task default", top_p |-> "task default",
     temperature |-> "task default", tgt_length |-> "task default",
     max_seq_length |-> "task default", num_return_sequences |-> "task default",
     batch_size |-> "2"]

NoResults == [kind |-> "none", prompt |-> "", used |-> <<>>]

IdleServer ==
    /\ chatbot = TaskflowInit
    /\ body = <<>>
    /\ results = NoResults
    /\ served = 0

NoResponse == [function_call |-> "none", arguments |-> "none"]

IdleChat ==
    /\ cpc = "idle"
    /\ messages = <<>>
    /\ response = NoResponse
    /\ tries = 0
    /\ nCreate = 0 /\ nFunc = 0
    /\ cret = [kind |-> "none", response |-> NoResponse]

NoLoss == [num |-> 0, den |-> 0]

IdleCrit ==
    /\ sequence_parallel = FALSE
    /\ prediction_scores = <<>>
    /\ masked_lm_labels = <<>>
    /\ loss_mask = <<>>
    /\ loss = NoLoss
    /\ kpc = "idle"

IdleProb ==
    /\ probs = <<>>
    /\ top_k = None /\ top_p = None /\ min_tokens_to_keep = 1
    /\ before = <<>>
    /\ last_process = "idle"

IdlePredict ==
    /\ data = <<>>
    /\ batch_size = 1
    /\ examples = <<>>
    /\ batches = <<>>
    /\ pred_results = <<>>
    /\ batch_no = 0
    /\ ppc = "idle"
    /\ pred_ret = <<>>

NoError == [type |-> "none", path |-> "none"]

IdleLmdb ==
    /\ disk = [root |-> "missing", pairs |-> "missing", imgs |-> "missing",
             pairs_opens |-> FALSE, imgs_opens |-> FALSE, counts |-> FALSE]
    /\ attrs = {}
    /\ opened = {}
    /\ closed = {}
    /\ lpc = "idle"
    /\ lerr = NoError

NoSelf == [kdim |-> None, vdim |-> None, head_dim |-> None]

IdleMha ==
    /\ mha_args = [embed_dim |-> 1, num_heads |-> 1, kdim |-> None, vdim |-> None,
                   fuse_attn_qkv |-> FALSE]
    /\ mha_self = NoSelf
    /\ mha_layers = {}
    /\ mpc = "idle"
    /\ merr = "none"

\* auto_env.get_mesh() before init_dist_env: None
NoMesh == [set |-> FALSE, pp_degree |-> 0]

IdleGpt ==
    /\ mesh = NoMesh
    /\ gpt_args = [num_layers |-> 0, hidden_size |-> 1, num_attention_heads |-> 1]
    /\ gpt_attrs = {}
    /\ sublayers = <<>>
    /\ gpc = "idle"
    /\ gerr = "none"

\* forward()'s arguments for get_logits_processor under the default
\* configuration (888-909) and a prompt of one token: min_dec_len 0,
\* max_dec_len 20, no eos or forced token, one beam group, diversity_rate 0.0,
\* repetition_penalty 1.0 (penalties and rates in hundredths)
DefaultArgs ==
    [min_length |-> {1}, max_length |-> 21, eos_token_id |-> None,
     forced_bos_token_id |-> None, forced_eos_token_id |-> None,
     num_beams |-> 1, num_beam_groups |-> 1, diversity_rate |-> 0,
     repetition_penalty |-> 100]

IdleProc ==
    /\ lp_args = DefaultArgs
    /\ processors = <<>>
    /\ step_log = <<>>
    /\ qpc = "idle"

IdleOfGen == IdleData /\ IdleServer /\ IdleChat /\ IdleCrit /\ IdleProb /\ IdlePredict /\ IdleLmdb /\ IdleMha /\ IdleGpt /\ IdleProc
IdleOfData == IdleGen /\ IdleServer /\ IdleChat /\ IdleCrit /\ IdleProb /\ IdlePredict /\ IdleLmdb /\ IdleMha /\ IdleGpt /\ IdleProc
IdleOfServer == IdleGen /\ IdleData /\ IdleChat /\ IdleCrit /\ IdleProb /\ IdlePredict /\ IdleLmdb /\ IdleMha /\ IdleGpt /\ IdleProc
IdleOfChat == IdleGen /\ IdleData /\ IdleServer /\ IdleCrit /\ IdleProb /\ IdlePredict /\ IdleLmdb /\ IdleMha /\ IdleGpt /\ IdleProc
IdleOfCrit == IdleGen /\ IdleData /\ IdleServer /\ IdleChat /\ IdleProb /\ IdlePredict /\ IdleLmdb /\ IdleMha /\ IdleGpt /\ IdleProc
IdleOfProb == IdleGen /\ IdleData /\ IdleServer /\ IdleChat /\ IdleCrit /\ IdlePredict /\ IdleLmdb /\ IdleMha /\ IdleGpt /\ IdleProc
IdleOfPredict == IdleGen /\ IdleData /\ IdleServer /\ IdleChat /\ IdleCrit /\ IdleProb /\ IdleLmdb /\ IdleMha /\ IdleGpt /\ IdleProc
IdleOfLmdb == IdleGen /\ IdleData /\ IdleServer /\ IdleChat /\ IdleCrit /\ IdleProb /\ IdlePredict /\ IdleMha /\ IdleGpt /\ IdleProc
IdleOfMha == IdleGen /\ IdleData /\ IdleServer /\ IdleChat /\ IdleCrit /\ IdleProb /\ IdlePredict /\ IdleLmdb /\ IdleGpt /\ IdleProc
IdleOfGpt == IdleGen /\ IdleData /\ IdleServer /\ IdleChat /\ IdleCrit /\ IdleProb /\ IdlePredict /\ IdleLmdb /\ IdleMha /\ IdleProc
IdleOfProc == IdleGen /\ IdleData /\ IdleServer /\ IdleChat /\ IdleCrit /\ IdleProb /\ IdlePredict /\ IdleLmdb /\ IdleMha /\ IdleGpt

\* ======================================================================
\*  LMDBDataset and pad_dataset  (ernie-vil2.0/data.py)
\* ======================================================================

\* "{}".format(n).encode("utf-8"): the decimal digits of n
FormatKey(n) == ToString(n)

\* int(bytes.decode("utf-8")) of a count value written by FormatKey
ParseInt(s) == CHOOSE k \in 0..(MaxSamples + 100) : ToString(k) = s

\* the image ids and the raw captions the stores are filled from
ImageIds == {5, 7}
TextIds == {7, 100}
RawTexts == {<<"A", "LDQUO", "b", "RDQUO">>, <<"c">>}

\* the base64 string stored for an image id, and the image it decodes to
B64Of(image_id) == <<"b64", image_id>>
DecodeImage(b64) == <<"image", b64[2]>>

\* the logical content of a pairs store: n records (image id, text id, caption)
PairLists(n) == [1..n -> {<<img, tid, txt>> : img \in ImageIds, tid \in TextIds, txt \in RawTexts}]

\* the pairs store holding the records under the keys "0".."n-1" and the count
PairsStore(recs) ==
    [k \in {"num_samples"} \cup {FormatKey(i) : i \in 0..(Len(recs) - 1)} |->
        IF k = "num_samples" THEN <<"count", FormatKey(Len(recs))>>
        ELSE <<"pair", recs[(CHOOSE i \in 0..(Len(recs) - 1) : FormatKey(i) = k) + 1]>>]

\* the imgs store: one base64 string per image id, and the count
ImgsStore ==
    [k \in {"num_images"} \cup {FormatKey(id) : id \in ImageIds} |->
        IF k = "num_images" THEN <<"count", FormatKey(Cardinality(ImageIds))>>
        ELSE B64Of(CHOOSE id \in ImageIds : FormatKey(id) = k)]

\* txn.get(key): the value, or None for a key the store does not hold
Has(store, key) == key \in DOMAIN store

\* _preprocess_text (44-47): lower(), then both curly quotes to a straight one
LowerChar(c) == CASE c = "A" -> "a" [] c = "B" -> "b" [] c = "C" -> "c" [] OTHER -> c
UnquoteChar(c) == IF c \in {"LDQUO", "RDQUO"} THEN "QUOT" ELSE c
PreprocessText(text) == [k \in 1..Len(text) |-> UnquoteChar(LowerChar(text[k]))]

\* line 133: the tokenizer call, input_ids of the one text
Tokenize(text) == <<"[CLS]">> \o text \o <<"[SEP]">>

\* line 138: list.index, 0-based
IndexOf(seq, v) == (CHOOSE k \in 1..Len(seq) : seq[k] = v /\ \A j \in 1..(k - 1) : seq[j] # v) - 1

\* mutant: the index used as it comes, without the modulo
SampleIndex_NoModulo(index, n) == index

\* line 123
SampleIndex(index, n) == index % n

\* mutant: the image looked up under the text id of the record
ImageKey_TextId(pair) == FormatKey(pair[2])

\* line 128: the imgs key is the image id of the pair
ImageKey(pair) == FormatKey(pair[1])

RaisedItem(e) == [status |-> e, pixel_values |-> <<>>, input_ids |-> <<>>, index |-> 0]

\* __init__ (71-89): the state after construction on well-formed stores
InitData ==
    /\ IdleOfData
    /\ \E n \in 0..MaxSamples : \E recs \in PairLists(n) : txn_pairs = PairsStore(recs)
    /\ txn_imgs = ImgsStore
    /\ number_samples = ParseInt(txn_pairs["num_samples"][2])
    /\ number_images = ParseInt(txn_imgs["num_images"][2])
    /\ dataset_len = number_samples
    /\ global_batch_size = 1
    /\ tokenizer \in BOOLEAN
    /\ item = NoItem
    /\ asked = 0
    /\ reads = <<>>
    /\ padCalls = 0
    /\ lastPad = 0

\* __getitem__ (122-140) for an index the loader asks for
GetItem(index) ==
    LET sample_index == SampleIndex(index, number_samples)
        pairKey == FormatKey(sample_index)
    IN IF ~Has(txn_pairs, pairKey)
         THEN \* .get() gave None: None.tobytes()
              /\ reads' = <<<<"pairs", pairKey>>>>
              /\ item' = RaisedItem("AttributeError")
         ELSE LET pair == txn_pairs[pairKey][2]
                  imgKey == ImageKey(pair)
              IN /\ reads' = <<<<"pairs", pairKey>>, <<"imgs", imgKey>>>>
                 /\ IF ~Has(txn_imgs, imgKey)
                      THEN item' = RaisedItem("AttributeError")
                      ELSE IF ~tokenizer
                        THEN \* self.tokenizer is None: calling it raises
                             item' = RaisedItem("TypeError")
                        ELSE LET text == Tokenize(PreprocessText(pair[3]))
                             IN item' = [status |-> "ok",
                                         pixel_values |-> DecodeImage(txn_imgs[imgKey]),
                                         input_ids |-> text,
                                         index |-> IndexOf(text, "[SEP]")]

DataGetItem ==
    /\ \E index \in 0..(dataset_len - 1) : asked' = index /\ GetItem(index)
    /\ UNCHANGED <<txn_pairs, txn_imgs, number_samples, number_images, dataset_len,
                   global_batch_size, tokenizer, padCalls, lastPad>>
    /\ UNCHANGED notData

\* math.ceil(a / b) for the dataset sizes of the model (a / b is exact below 2^53)
Ceil(a, b) == IF a % b = 0 THEN a \div b ELSE (a \div b) + 1

\* mutant: one more batch than the quotient, whether or not it is exact
PaddedLen_ExtraBatch(len, g) == ((len \div g) + 1) * g

\* line 145
PaddedLen(len, g) == Ceil(len, g) * g

\* pad_dataset (143-146)
PadDataset ==
    /\ padCalls < MaxPads
    /\ \E g \in 1..MaxGlobalBatch :
          /\ dataset_len' = PaddedLen(dataset_len, g)
          /\ global_batch_size' = g
          /\ lastPad' = g
    /\ padCalls' = padCalls + 1
    /\ UNCHANGED <<txn_pairs, txn_imgs, number_samples, number_images, tokenizer, item, asked, reads>>
    /\ UNCHANGED notData

NextData == DataGetItem \/ PadDataset

\* ---------------------------------------------------------------- claims

\* what the tokenizer is given for each caption of RawTexts, and where [SEP] is
ExpectedInputIds(raw_text) ==
    IF raw_text = <<"c">> THEN <<"[CLS]", "c", "[SEP]">>
    ELSE <<"[CLS]", "a", "QUOT", "b", "QUOT", "[SEP]">>

\* C3: for every index i in [0, len(dataset)), padded indices included,
\* __getitem__(i) reads the pairs record under the key str(i mod number_samples)
\* and then the image under the key str(image id) of that same record; the
\* pixel_values and input_ids it returns come from that one record, and the
\* count keys num_samples / num_images are never read as a sample.
C3_GetItemReadsOnePair ==
    (item.status # "none") =>
        /\ asked \in 0..(dataset_len - 1)
        /\ Len(reads) = 2
        /\ reads[1] = <<"pairs", ToString(asked % number_samples)>>
        /\ \A k \in 1..Len(reads) : reads[k][2] \notin {"num_samples", "num_images"}
        /\ LET pair == txn_pairs[ToString(asked % number_samples)][2]
           IN /\ reads[2] = <<"imgs", ToString(pair[1])>>
              /\ item.status = (IF tokenizer THEN "ok" ELSE "TypeError")
              /\ (item.status = "ok") =>
                    /\ item.pixel_values = <<"image", pair[1]>>
                    /\ item.input_ids = ExpectedInputIds(pair[3])
                    /\ item.input_ids[item.index + 1] = "[SEP]"

\* an index added by padding was served
C3_Witness ==
    /\ item.status = "ok" /\ asked >= number_samples /\ number_samples >= 2
    /\ asked % number_samples = 1

SmallestMultiple(g, n) == CHOOSE m \in n..(n + g - 1) : m % g = 0

\* C4 as claimed: after any non-empty sequence of pad_dataset calls on a
\* dataset with number_samples = n >= 1 whose last call used g,
\* global_batch_size = g and dataset_len is the smallest multiple of g >= n.
C4_Original ==
    (padCalls >= 1 /\ number_samples >= 1) =>
        /\ global_batch_size = lastPad
        /\ dataset_len = SmallestMultiple(lastPad, number_samples)

\* C4 (amended): every pad_dataset call with g sets global_batch_size = g and
\* dataset_len to the smallest multiple of g that is >= the dataset_len before
\* the call; so after the first call dataset_len is the smallest multiple of g
\* that is >= n, after any later call it is a multiple of the last g that is
\* >= n (possibly more than one batch above n); number_samples never changes.
C4_PadToNextMultiple ==
    /\ [][ (padCalls' = padCalls + 1) =>
             /\ global_batch_size' = lastPad'
             /\ dataset_len' = SmallestMultiple(lastPad', dataset_len) ]_vars
    /\ []( (padCalls = 1) => dataset_len = SmallestMultiple(lastPad, number_samples) )
    /\ []( (padCalls >= 1) =>
             /\ global_batch_size = lastPad
             /\ dataset_len % lastPad = 0
             /\ dataset_len >= number_samples )
    /\ [][number_samples' = number_samples]_vars

\* two calls left more than the smallest multiple of the last g
C4_Witness ==
    /\ padCalls = 2 /\ number_samples >= 1
    /\ dataset_len >= SmallestMultiple(lastPad, number_samples) + lastPad

\* ======================================================================
\*  read_item  (examples/language_model/chatglm/server.py)
\*  Values are written as the text of the JSON value; the prompt "nin hao"
\*  stands for the two-character greeting of line 28.
\* ======================================================================

\* class Item (27-35): the fields and their declared defaults
ItemDefaults ==
    [prompt |-> "nin hao", decode_strategy |-> "sampling", top_k |-> "1",
     top_p |-> "1.0", temperature |-> "1.0", tgt_length |-> "128",
     max_seq_length |-> "128", num_return_sequences |-> "1"]

ItemFields == DOMAIN ItemDefaults

\* a value of each field that differs from its default
OtherValue ==
    [prompt |-> "hello", decode_strategy |-> "greedy_search", top_k |-> "5",
     top_p |-> "0.7", temperature |-> "0.5", tgt_length |-> "64",
     max_seq_length |-> "256", num_return_sequences |-> "2"]

\* the request bodies: any subset of the fields, each given its other value
Bodies == {[f \in fs |-> OtherValue[f]] : fs \in SUBSET ItemFields}

\* mutant: only the fields the request set (item.dict(exclude_unset=True))
ItemDict_ExcludeUnset(b) == b

\* lines 44-46: pydantic builds the Item, omitted fields take their defaults,
\* and item.dict() holds every field
ItemDict(b) == [f \in ItemFields |-> IF f \in DOMAIN b THEN b[f] ELSE ItemDefaults[f]]

\* line 45: message = item.prompt
ItemPrompt(b) == IF "prompt" \in DOMAIN b THEN b["prompt"] ELSE ItemDefaults["prompt"]

\* Taskflow.set_argument: every key of the dict is set on the task
SetArgument(taskArgs, doc_dict) ==
    [k \in DOMAIN taskArgs \cup DOMAIN doc_dict |->
        IF k \in DOMAIN doc_dict THEN doc_dict[k] ELSE taskArgs[k]]

\* Taskflow.__call__: generation on the message under the arguments in effect
Generate(message, taskArgs) == [kind |-> "generation", prompt |-> message, used |-> taskArgs]

InitServer ==
    /\ IdleOfServer
    /\ chatbot = TaskflowInit
    /\ body = <<>>
    /\ results = NoResults
    /\ served = 0

\* read_item (43-49). The handler is a coroutine without an await, so the
\* event loop runs set_argument and the pipeline call of one request before
\* any step of another.
ReadItem ==
    /\ served < MaxRequests
    /\ served' = served + 1
    /\ \E b \in Bodies :
          /\ body' = b
          /\ LET message == ItemPrompt(b)
                 doc_dict == ItemDict(b)
             IN /\ chatbot' = SetArgument(chatbot, doc_dict)
                /\ results' = Generate(message, chatbot')
    /\ UNCHANGED notServer

\* read_root (38-40)
ReadRoot ==
    /\ results' = [kind |-> "hello", prompt |-> "", used |-> <<>>]
    /\ UNCHANGED <<chatbot, body, served>>
    /\ UNCHANGED notServer

NextServer == ReadItem \/ ReadRoot

SpecServer == InitServer /\ [][NextServer]_vars

\* ---------------------------------------------------------------- claims

\* the defaults the claim lists
ClaimedDefaults ==
    [prompt |-> "nin hao", decode_strategy |-> "sampling", top_k |-> "1",
     top_p |-> "1.0", temperature |-> "1.0", tgt_length |-> "128",
     max_seq_length |-> "128", num_return_sequences |-> "1"]

\* C2: every POST /text2text_generation/ first sets the shared pipeline's
\* arguments to exactly the fields of its own Item (omitted fields at their
\* declared defaults), then runs the pipeline on its own prompt and returns the
\* result; whatever requests came before, no argument value an earlier request
\* set is in effect during the generation.
C2_ArgumentsAreThisRequests ==
    (results.kind = "generation") =>
        /\ \A f \in DOMAIN ClaimedDefaults :
              results.used[f] = (IF f \in DOMAIN body THEN body[f] ELSE ClaimedDefaults[f])
        /\ results.prompt = results.used["prompt"]
        /\ results.used["batch_size"] = "2"
        /\ DOMAIN results.used = DOMAIN ClaimedDefaults \cup {"batch_size"}

\* a request that omits fields an earlier request had set
C2_Witness ==
    /\ served >= 2
    /\ results.kind = "generation"
    /\ body = [temperature |-> "0.5"]
    /\ results.used["top_k"] = "1" /\ results.used["prompt"] = "nin hao"
    /\ chatbot = results.used

\* ======================================================================
\*  chat_paper  (pipelines/examples/chatpaper/function_calling_example.py)
\* ======================================================================

\* line 119: for i in range(3)
Tries == 3

\* line 125: the functions chat_paper can execute
name2function == {"search_multi_paper", "search_single_paper"}

\* what the model may answer: no function_call, or a call of some name with
\* arguments that are JSON or not
Responses ==
    {NoResponse} \cup
    [function_call : name2function \cup {"unknown_tool"}, arguments : {"json", "not json"}]

\* history_transform and prediction (139-155): the context chat_paper gets
Context(h) ==
    [k \in 1..(2 * h + 1) |->
        [role |-> IF k % 2 = 1 THEN "user" ELSE "assistant", name |-> "none"]]

InitChat ==
    /\ IdleOfChat
    /\ cpc = "create"
    /\ \E h \in 0..MaxHistory : messages = Context(h)
    /\ response = NoResponse
    /\ tries = 0
    /\ nCreate = 0 /\ nFunc = 0
    /\ cret = [kind |-> "none", response |-> NoResponse]

\* an exception leaves chat_paper
ChatRaise(e) ==
    /\ cpc' = "raised"
    /\ cret' = [kind |-> e, response |-> response]

\* lines 112-116: the first request
ChatCreate ==
    /\ cpc = "create"
    /\ nCreate' = nCreate + 1
    /\ \E r \in Responses : response' = r
    /\ cpc' = "loop"
    /\ UNCHANGED <<messages, tries, nFunc, cret>>
    /\ UNCHANGED notChat

\* lines 112-116: the first request fails
ChatCreateRaises ==
    /\ cpc = "create"
    /\ nCreate' = nCreate + 1
    /\ ChatRaise("APIError")
    /\ UNCHANGED <<messages, response, tries, nFunc>>
    /\ UNCHANGED notChat

\* mutant: one more round than range(3) gives
LoopRuns_Inclusive(i) == i <= Tries

\* line 119: the loop still has an iteration to run
LoopRuns(i) == i < Tries

\* line 120
HasFunctionCall(r) == r.function_call # "none"

\* lines 120-121: a response without function_call is returned at once
ChatReturnAnswer ==
    /\ cpc = "loop"
    /\ LoopRuns(tries)
    /\ ~HasFunctionCall(response)
    /\ cpc' = "returned"
    /\ cret' = [kind |-> "response", response |-> response]
    /\ UNCHANGED <<messages, response, tries, nCreate, nFunc>>
    /\ UNCHANGED notChat

\* line 126: name2function[...] of a name it does not hold
ChatUnknownFunction ==
    /\ cpc = "loop"
    /\ LoopRuns(tries)
    /\ HasFunctionCall(response)
    /\ response.function_call \notin name2function
    /\ ChatRaise("KeyError")
    /\ UNCHANGED <<messages, response, tries, nCreate, nFunc>>
    /\ UNCHANGED notChat

\* line 127: json.loads of arguments that are not JSON
ChatBadArguments ==
    /\ cpc = "loop"
    /\ LoopRuns(tries)
    /\ HasFunctionCall(response)
    /\ response.function_call \in name2function
    /\ response.arguments # "json"
    /\ ChatRaise("JSONDecodeError")
    /\ UNCHANGED <<messages, response, tries, nCreate, nFunc>>
    /\ UNCHANGED notChat

CanExecute ==
    /\ cpc = "loop"
    /\ LoopRuns(tries)
    /\ HasFunctionCall(response)
    /\ response.function_call \in name2function
    /\ response.arguments = "json"

\* lines 131-134: the two messages appended after the function ran
WithFunctionResult(msgs, function_call) ==
    msgs \o << [role |-> "assistant", name |-> function_call],
               [role |-> "function", name |-> function_call] >>

\* lines 123-135: the function runs, its result is appended, the model is asked again
ChatExecute ==
    /\ CanExecute
    /\ nFunc' = nFunc + 1
    /\ messages' = WithFunctionResult(messages, response.function_call)
    /\ nCreate' = nCreate + 1
    /\ \E r \in Responses : response' = r
    /\ tries' = tries + 1
    /\ UNCHANGED <<cpc, cret>>
    /\ UNCHANGED notChat

\* line 128: the function (the retrieval pipeline) raises
ChatFunctionRaises ==
    /\ CanExecute
    /\ nFunc' = nFunc + 1
    /\ ChatRaise("PipelineError")
    /\ UNCHANGED <<messages, response, tries, nCreate>>
    /\ UNCHANGED notChat

\* line 135: the function ran, the follow-up request fails
ChatFollowUpRaises ==
    /\ CanExecute
    /\ nFunc' = nFunc + 1
    /\ messages' = WithFunctionResult(messages, response.function_call)
    /\ nCreate' = nCreate + 1
    /\ ChatRaise("APIError")
    /\ UNCHANGED <<response, tries>>
    /\ UNCHANGED notChat

\* line 136: the loop ran out, the last response is returned as it is
ChatReturnLast ==
    /\ cpc = "loop"
    /\ ~LoopRuns(tries)
    /\ cpc' = "returned"
    /\ cret' = [kind |-> "response", response |-> response]
    /\ UNCHANGED <<messages, response, tries, nCreate, nFunc>>
    /\ UNCHANGED notChat

NextChat ==
    \/ ChatCreate
    \/ ChatCreateRaises
    \/ ChatReturnAnswer
    \/ ChatUnknownFunction
    \/ ChatBadArguments
    \/ ChatExecute
    \/ ChatFunctionRaises
    \/ ChatFollowUpRaises
    \/ ChatReturnLast

SpecChat == InitChat /\ [][NextChat]_vars

\* chat_paper is sequential code and every call it makes returns or raises
SpecChatFair == SpecChat /\ WF_vars(NextChat)

\* ---------------------------------------------------------------- claims

ChatDone == cpc \in {"returned", "raised"}

\* C7: whatever the model answers, chat_paper terminates after at most 3
\* executed tool functions and at most 4 ChatCompletion.create requests; a
\* response without function_call is returned at once, with no function
\* executed and no further request.
C7_AtMostThreeFunctionCalls ==
    /\ [](nFunc <= 3 /\ nCreate <= 4 /\ nCreate <= nFunc + 1)
    /\ <>ChatDone
    /\ [][ (cpc = "loop" /\ response.function_call = "none") =>
             /\ cpc' = "returned"
             /\ cret' = [kind |-> "response", response |-> response]
             /\ nFunc' = nFunc /\ nCreate' = nCreate /\ messages' = messages ]_vars
    /\ []( (cpc = "returned" /\ cret.response.function_call # "none") => nFunc = 3 )

\* three functions ran and the fourth response still asks for one
C7_Witness ==
    /\ cpc = "returned" /\ nFunc = 3 /\ nCreate = 4
    /\ cret.response.function_call = "search_single_paper"

\* ======================================================================
\*  GPTPretrainingCriterionAuto.forward  (auto_model.py 836-870)
\*  Losses are in thousandths (per-token cross-entropy rounded to three
\*  decimals) and finite; the loss is kept as numerator and denominator of
\*  the final division.
\* ======================================================================

\* the shape of the batch: 2 sequences of 2 positions, a vocabulary of 2
BIdx == 1..2
SIdx == 1..2
\* the logits one position can hold, over the vocabulary <<token 0, token 1>>
LogitRows == {<<0, 0>>, <<0, 1>>}
LabelIds == {0, 1}

\* paddle.nn.CrossEntropyLoss(reduction="none") on one position (833, 864):
\* log(1 + exp(other logit - label logit)), in thousandths
CrossEntropy(row, label) ==
    LET d == row[2 - label] - row[label + 1]
    IN CASE d = 0 -> 693
         [] d = 1 -> 1313
         [] d = -1 -> 313

\* transpose([1, 0, 2]) (862)
Transpose(t) == [b \in BIdx |-> [q \in SIdx |-> t[q][b]]]

\* reshape([-1]) of a [b][s] tensor: row-major
Flatten(t) == [k \in 1..(Cardinality(BIdx) * Cardinality(SIdx)) |->
                 t[((k - 1) \div Cardinality(SIdx)) + 1][((k - 1) % Cardinality(SIdx)) + 1]]

RECURSIVE SumSeq(_)
SumSeq(q) == IF q = <<>> THEN 0 ELSE q[1] + SumSeq(Tail(q))

\* mutant: the per-token losses summed without the mask
MaskedSum_Unmasked(token_loss, mask) == SumSeq(token_loss)

\* line 867: paddle.sum(masked_lm_loss.reshape([-1]) * loss_mask)
MaskedSum(token_loss, mask) ==
    SumSeq([k \in 1..Len(token_loss) |-> token_loss[k] * mask[k]])

\* forward (860-870)
Criterion(sp, scores, labels, mask) ==
    LET scores_bs == IF sp THEN Transpose(scores) ELSE scores
        masked_lm_loss == [b \in BIdx |-> [q \in SIdx |->
                              CrossEntropy(scores_bs[b][q], labels[b][q])]]
        flat_mask == Flatten(mask)
    IN [num |-> MaskedSum(Flatten(masked_lm_loss), flat_mask),
        den |-> SumSeq(flat_mask)]

InitCrit ==
    /\ IdleOfCrit
    /\ sequence_parallel \in BOOLEAN
    /\ prediction_scores \in [BIdx -> [SIdx -> LogitRows]]
    /\ masked_lm_labels \in [BIdx -> [SIdx -> LabelIds]]
    /\ loss_mask \in [BIdx -> [SIdx -> 0..MaxMask]]
    /\ loss = NoLoss
    /\ kpc = "input"

\* one call of forward on the tensors at hand
CriterionForward ==
    /\ kpc = "input"
    /\ loss' = Criterion(sequence_parallel, prediction_scores, masked_lm_labels, loss_mask)
    /\ kpc' = "done"
    /\ UNCHANGED <<sequence_parallel, prediction_scores, masked_lm_labels, loss_mask>>
    /\ UNCHANGED notCrit

\* the next call: the batch differs from the last one in the logits and the
\* label of one position the mask leaves out
CriterionForwardChanged ==
    /\ kpc = "done"
    /\ \E b \in BIdx, q \in SIdx, row \in LogitRows, label \in LabelIds :
          /\ loss_mask[b][q] = 0
          /\ prediction_scores' =
                IF sequence_parallel
                  THEN [prediction_scores EXCEPT ![q][b] = row]
                  ELSE [prediction_scores EXCEPT ![b][q] = row]
          /\ masked_lm_labels' = [masked_lm_labels EXCEPT ![b][q] = label]
    /\ loss' = Criterion(sequence_parallel, prediction_scores', masked_lm_labels', loss_mask)
    /\ UNCHANGED <<sequence_parallel, loss_mask, kpc>>
    /\ UNCHANGED notCrit

NextCrit == CriterionForward \/ CriterionForwardChanged

SpecCrit == InitCrit /\ [][NextCrit]_vars

\* ---------------------------------------------------------------- claims

\* the logits of sequence b, position q, whatever the layout
ScoresAt(b, q) ==
    IF sequence_parallel THEN prediction_scores[q][b] ELSE prediction_scores[b][q]

\* per-token cross-entropy in thousandths, by logits and label
TokenLossTable(row, label) ==
    IF row = <<0, 0>> THEN 693
    ELSE IF row = <<0, 1>> /\ label = 1 THEN 313
    ELSE 1313

Positions == BIdx \X SIdx

RECURSIVE SumOver(_, _)
SumOver(S, f) ==
    IF S = {} THEN 0
    ELSE LET x == CHOOSE y \in S : TRUE IN f[x] + SumOver(S \ {x}, f)

MaskedIn == {p \in Positions : loss_mask[p[1]][p[2]] # 0}

\* C8: forward returns the sum over all (batch, position) entries of per-token
\* cross-entropy times loss_mask, divided by the sum of loss_mask. For a mask
\* with a non-zero entry the positions whose mask is 0 contribute nothing:
\* another call that differs only in the logits or the label of a masked-out
\* position returns the same loss; with a 0/1 mask the loss is the mean
\* per-token loss over the masked-in positions.
C8_MaskedMeanLoss ==
    /\ []( (kpc = "done" /\ MaskedIn # {}) =>
            /\ loss.num = SumOver(MaskedIn,
                             [p \in Positions |->
                                TokenLossTable(ScoresAt(p[1], p[2]), masked_lm_labels[p[1]][p[2]])
                                  * loss_mask[p[1]][p[2]]])
            /\ loss.den = SumOver(MaskedIn, [p \in Positions |-> loss_mask[p[1]][p[2]]])
            /\ loss.den > 0
            /\ (\A p \in Positions : loss_mask[p[1]][p[2]] \in {0, 1}) =>
                  /\ loss.den = Cardinality(MaskedIn)
                  /\ loss.num = SumOver(MaskedIn,
                                   [p \in Positions |->
                                      TokenLossTable(ScoresAt(p[1], p[2]),
                                                     masked_lm_labels[p[1]][p[2]])]) )
    /\ [][ ( /\ kpc = "done" /\ kpc' = "done" /\ MaskedIn # {}
             /\ \A p \in MaskedIn :
                   /\ ScoresAt(p[1], p[2])' = ScoresAt(p[1], p[2])
                   /\ masked_lm_labels'[p[1]][p[2]] = masked_lm_labels[p[1]][p[2]] )
           => loss' = loss ]_vars

\* a masked-out position was given other logits and another label
C8_Witness ==
    /\ kpc = "done" /\ sequence_parallel
    /\ loss_mask = <<<<1, 0>>, <<2, 0>>>>
    /\ ScoresAt(1, 2) = <<0, 1>> /\ masked_lm_labels[1][2] = 0
    /\ ScoresAt(1, 1) = <<0, 1>> /\ masked_lm_labels[1][1] = 1
    /\ ScoresAt(2, 1) = <<0, 0>>
    /\ loss = [num |-> 313 + 2 * 693, den |-> 3]

\* ======================================================================
\*  TopKProcess and TopPProcess  (auto_model.py 1080-1110, 1160-1175)
\*  Probabilities are whole numbers of units, ProbUnits of them being 1.0.
\* ======================================================================

\* the two rows of the batch
PRows == 1..2
Tokens == 1..VocabSize

\* F.softmax: rows that sum to 1.0
RECURSIVE RowSum(_, _)
RowSum(row, n) == IF n = 0 THEN 0 ELSE row[n] + RowSum(row, n - 1)
SoftmaxRows == {row \in [Tokens -> 0..ProbUnits] : RowSum(row, VocabSize) = ProbUnits}

\* paddle.argsort(row, descending=True): any order that sorts the row; which
\* of two equal entries comes first is the kernel's choice
Orders(row) ==
    {o \in Permutations(Tokens) :
        \A i, j \in Tokens : i < j => row[o[i]] >= row[o[j]]}

\* paddle.sort(row, descending=True)
SortDescending(row) == LET o == CHOOSE o \in Orders(row) : TRUE IN [i \in Tokens |-> row[o[i]]]

Min(a, b) == IF a <= b THEN a ELSE b
Maximum(a, b) == IF a >= b THEN a ELSE b

\* line 1081
TopKSize(k, keep, vocab) == Min(Maximum(k, keep), vocab)

\* mutant: only the entries above the k-th largest are kept
KeptByTopK_Strict(p, kth) == p > kth

\* line 1084: probs >= topk_probs[:, -1:]
KeptByTopK(p, kth) == p >= kth

\* TopKProcess (1080-1085) on one row
TopKRow(row, k, keep) ==
    LET size == TopKSize(k, keep, VocabSize)
        topk_probs == SubSeq(SortDescending(row), 1, size)
        kth == topk_probs[Len(topk_probs)]
    IN [v \in Tokens |-> IF KeptByTopK(row[v], kth) THEN row[v] ELSE 0]

TopKProcess(p, k, keep) == [b \in PRows |-> TopKRow(p[b], k, keep)]

\* paddle.cumsum(sorted_probs, axis=-1)
CumSum(sorted) == [i \in Tokens |-> RowSum(sorted, i)]

\* lines 1094-1097: above top_p, but never among the first keep - 1
AboveTopP(cumulative, p, keep) ==
    [i \in Tokens |->
        IF keep > 1 /\ i <= keep - 1 THEN 0
        ELSE IF cumulative[i] > p THEN 1 ELSE 0]

\* mutant: the flags used where they are, without the shift
ShiftRight_None(flags) == flags

\* lines 1100-1101: the flags move one place right, the first is cleared
ShiftRight(flags) == [i \in Tokens |-> IF i = 1 THEN 0 ELSE flags[i - 1]]

\* flatten() of a [row][token] tensor, 0-based positions
FlatLen == Cardinality(PRows) * VocabSize
FlattenRows(t) == [j \in 0..(FlatLen - 1) |-> t[(j \div VocabSize) + 1][(j % VocabSize) + 1]]

\* line 1104: sorted_indices + arange(rows).unsqueeze(-1) * vocab, 0-based
OffsetIndices(orders) ==
    [b \in PRows |-> [i \in Tokens |-> (orders[b][i] - 1) + (b - 1) * VocabSize]]

\* paddle.scatter(x, index, updates): x with updates[i] written at index[i]
Scatter(x, index, updates) ==
    [j \in DOMAIN x |->
        IF \E i \in DOMAIN index : index[i] = j
          THEN updates[CHOOSE i \in DOMAIN index : index[i] = j]
          ELSE x[j]]

\* lines 1088-1101: which ranks of each row are removed
SortedIndicesToRemove(p, pmass, keep) ==
    [b \in PRows |-> ShiftRight(AboveTopP(CumSum(SortDescending(p[b])), pmass, keep))]

\* lines 1104-1110: the flags scattered back to the tokens' own indices,
\* with the orders argsort gave, and the flagged probabilities set to 0
ScatterToOriginal(p, to_remove, orders) ==
    LET flat_remove == FlattenRows(to_remove)
        condition == Scatter(flat_remove, FlattenRows(OffsetIndices(orders)), flat_remove)
    IN [b \in PRows |-> [v \in Tokens |->
          IF condition[(v - 1) + (b - 1) * VocabSize] = 1 THEN 0 ELSE p[b][v]]]

\* TopPProcess (1087-1110): every result argsort's choice among ties allows
TopPProcess(p, pmass, keep) ==
    LET to_remove == SortedIndicesToRemove(p, pmass, keep)
    IN {ScatterToOriginal(p, flags, <<first, second>>) :
            flags \in {to_remove}, first \in Orders(p[1]), second \in Orders(p[2])}

InitProb ==
    /\ IdleOfProb
    /\ probs \in [PRows -> SoftmaxRows]
    /\ min_tokens_to_keep \in 0..MaxKeep
    /\ top_k = None
    /\ top_p = None
    /\ before = <<>>
    /\ last_process = "softmax"

\* lines 1160-1161 with top_k set
ApplyTopK ==
    /\ last_process = "softmax"
    /\ \E k \in 1..(VocabSize + 1) :
          /\ top_k' = k
          /\ probs' = TopKProcess(probs, k, min_tokens_to_keep)
    /\ before' = probs
    /\ last_process' = "TopKProcess"
    /\ UNCHANGED <<top_p, min_tokens_to_keep>>
    /\ UNCHANGED notProb

\* line 1160: top_k is None or 0
SkipTopK ==
    /\ last_process = "softmax"
    /\ top_k' \in {None, 0}
    /\ last_process' = "no TopKProcess"
    /\ UNCHANGED <<probs, top_p, min_tokens_to_keep, before>>
    /\ UNCHANGED notProb

\* lines 1162, 1175 with top_p < 1.0 (and use_topp_sampling off)
ApplyTopP ==
    /\ last_process \in {"TopKProcess", "no TopKProcess"}
    /\ \E p \in 0..(ProbUnits - 1) :
          /\ top_p' = p
          /\ probs' \in TopPProcess(probs, p, min_tokens_to_keep)
    /\ before' = probs
    /\ last_process' = "TopPProcess"
    /\ UNCHANGED <<top_k, min_tokens_to_keep>>
    /\ UNCHANGED notProb

\* line 1162: top_p is None or 1.0
SkipTopP ==
    /\ last_process \in {"TopKProcess", "no TopKProcess"}
    /\ top_p' \in {None, ProbUnits}
    /\ last_process' = "no TopPProcess"
    /\ UNCHANGED <<probs, top_k, min_tokens_to_keep, before>>
    /\ UNCHANGED notProb

NextProb == ApplyTopK \/ SkipTopK \/ ApplyTopP \/ SkipTopP

SpecProb == InitProb /\ [][NextProb]_vars

\* ---------------------------------------------------------------- claims

\* rank (0 first) of token v in an order
RankOf(order, v) == (CHOOSE i \in Tokens : order[i] = v) - 1

\* total probability of the tokens of ranks 0..r-1
MassBefore(row, order, r) == RowSum([i \in Tokens |-> row[order[i]]], r)

\* C9: TopPProcess removes the tokens whose cumulative probability is above
\* top_p but keeps at least min_tokens_to_keep: in every row, with the tokens
\* ranked by descending probability (ties in some order), a token is set to 0
\* exactly when its rank r is >= max(1, min_tokens_to_keep) and the ranks
\* 0..r-1 together exceed top_p; every other token keeps its probability at
\* its own index, so the top-ranked token always survives.
C9_TopPRemovesBeyondMass ==
    (last_process = "TopPProcess") =>
        \A b \in PRows :
            \E ranking \in Orders(before[b]) :
                /\ \A v \in Tokens :
                      LET r == RankOf(ranking, v)
                          removed == /\ r >= (IF min_tokens_to_keep > 1 THEN min_tokens_to_keep ELSE 1)
                                     /\ MassBefore(before[b], ranking, r) > top_p
                      IN probs[b][v] = IF removed THEN 0 ELSE before[b][v]
                /\ probs[b][ranking[1]] = before[b][ranking[1]]

\* the two rows are cut at different ranks and lose tokens at different
\* indices; in the first the three-way tie left the middle token last
C9_Witness ==
    /\ last_process = "TopPProcess" /\ top_p = 1 /\ min_tokens_to_keep = 0
    /\ before = << <<1, 1, 1>>, <<0, 1, 2>> >>
    /\ probs = << <<1, 0, 1>>, <<0, 0, 2>> >>

\* the k-th largest entry of a row, by counting
KthLargest(row, k) ==
    CHOOSE x \in {row[v] : v \in Tokens} :
        /\ Cardinality({v \in Tokens : row[v] > x}) < k
        /\ Cardinality({v \in Tokens : row[v] >= x}) >= k

\* C10: TopKProcess, with k = min(max(top_k, min_tokens_to_keep), vocabulary
\* size), sets to 0 exactly the tokens whose probability is strictly less than
\* the k-th largest of their row and leaves every other probability as it is;
\* so every row keeps at least k tokens, and more than k only when
\* probabilities tie with the k-th largest.
C10_TopKKeepsKLargest ==
    (last_process = "TopKProcess") =>
        LET k == IF top_k >= min_tokens_to_keep
                   THEN (IF top_k <= VocabSize THEN top_k ELSE VocabSize)
                   ELSE (IF min_tokens_to_keep <= VocabSize THEN min_tokens_to_keep ELSE VocabSize)
        IN \A b \in PRows :
              LET kth == KthLargest(before[b], k)
                  kept == {v \in Tokens : before[b][v] >= kth}
              IN /\ \A v \in Tokens :
                       probs[b][v] = IF before[b][v] < kth THEN 0 ELSE before[b][v]
                 /\ Cardinality(kept) >= k
                 /\ (Cardinality(kept) > k) =>
                       Cardinality({v \in Tokens : before[b][v] = kth}) >= 2

\* k is 1: one row loses a token, the other keeps three because of a tie
C10_Witness ==
    /\ last_process = "TopKProcess" /\ top_k = 1 /\ min_tokens_to_keep = 0
    /\ before = << <<1, 2, 0>>, <<1, 1, 1>> >>
    /\ probs = << <<0, 2, 0>>, <<1, 1, 1>> >>

\* ======================================================================
\*  predict  (balance_classification/predict.py 41-91)
\* ======================================================================

\* the texts of the model and the class scores the classifier gives each:
\* "tie" has two classes with the top score
Texts == {"west", "nine", "tie"}
ClassScores(text) ==
    CASE text = "west" -> <<3, 1, 0>>
      [] text = "nine" -> <<0, 1, 3>>
      [] OTHER         -> <<2, 2, 0>>

\* get_id_to_label's map: class id (0-based) to label
label_map == [i \in 0..2 |-> <<"showroom", "negotiation", "sandtable">>[i + 1]]

\* convert_example(text, tokenizer, ..., is_test=True, is_pair=True): the
\* pair (input_ids, token_type_ids) of the text
ConvertExample(text) == <<<<"input_ids", text>>, <<"token_type_ids", text>>>>

\* the text a converted example was made of
TextOf(example) == example[1][2]

\* seq[from:to] of Python for 0 <= from <= to: clamped at the end of seq
Slice(seq, from, to) ==
    LET stop == IF to <= Len(seq) THEN to ELSE Len(seq)
    IN IF from >= stop THEN <<>> ELSE SubSeq(seq, from + 1, stop)

\* range(0, n, step) for step >= 1, as the sequence of its values
Range0(n, step) == [k \in 1..((n + step - 1) \div step) |-> (k - 1) * step]

\* mutant: the slice one example short
BatchSlice_Short(exs, idx, size) == Slice(exs, idx, idx + size - 1)

\* line 71: examples[idx:idx + batch_size]
BatchSlice(exs, idx, size) == Slice(exs, idx, idx + size)

\* lines 70-73
Separate(exs, size) ==
    LET starts == Range0(Len(exs), size)
    IN [k \in 1..Len(starts) |-> BatchSlice(exs, starts[k], size)]

\* paddle.argmax(probs, axis=1) of one row, 0-based: an index of the largest
\* score (softmax keeps the order of the scores)
Argmaxes(scores) ==
    {i \in 0..(Len(scores) - 1) : \A j \in 1..Len(scores) : scores[i + 1] >= scores[j]}

\* the idx lists lines 85-88 can give for a batch
BatchIdx(batch) ==
    {idx \in [1..Len(batch) -> 0..2] :
        \A r \in 1..Len(batch) : idx[r] \in Argmaxes(ClassScores(TextOf(batch[r])))}

InitPredict ==
    /\ IdleOfPredict
    /\ data \in UNION {[1..n -> Texts] : n \in 0..MaxData}
    /\ batch_size \in 1..MaxBatchSize
    /\ examples = <<>>
    /\ batches = <<>>
    /\ pred_results = <<>>
    /\ batch_no = 0
    /\ ppc = "call"
    /\ pred_ret = <<>>

\* lines 58-67: every text converted, in order
PredictConvert ==
    /\ ppc = "call"
    /\ examples' = [i \in 1..Len(data) |-> ConvertExample(data[i])]
    /\ ppc' = "split"
    /\ UNCHANGED <<data, batch_size, batches, pred_results, batch_no, pred_ret>>
    /\ UNCHANGED notPredict

\* lines 70-80: the batches, and the empty results
PredictSeparate ==
    /\ ppc = "split"
    /\ batches' = Separate(examples, batch_size)
    /\ pred_results' = <<>>
    /\ ppc' = "loop"
    /\ UNCHANGED <<data, batch_size, examples, batch_no, pred_ret>>
    /\ UNCHANGED notPredict

\* lines 81-90: one batch through the model, its labels appended
PredictBatch ==
    /\ ppc = "loop"
    /\ batch_no < Len(batches)
    /\ \E idx \in BatchIdx(batches[batch_no + 1]) :
          pred_results' = pred_results \o [r \in 1..Len(idx) |-> label_map[idx[r]]]
    /\ batch_no' = batch_no + 1
    /\ UNCHANGED <<data, batch_size, examples, batches, ppc, pred_ret>>
    /\ UNCHANGED notPredict

\* line 91
PredictReturn ==
    /\ ppc = "loop"
    /\ batch_no = Len(batches)
    /\ pred_ret' = pred_results
    /\ ppc' = "returned"
    /\ UNCHANGED <<data, batch_size, examples, batches, pred_results, batch_no>>
    /\ UNCHANGED notPredict

NextPredict == PredictConvert \/ PredictSeparate \/ PredictBatch \/ PredictReturn

SpecPredict == InitPredict /\ [][NextPredict]_vars

\* ---------------------------------------------------------------- claims

\* the labels the claim allows for a text: label_map at an argmax of its scores
LabelsFor(text) ==
    {label_map[c] : c \in {c \in 0..2 : \A d \in 0..2 :
                              ClassScores(text)[c + 1] >= ClassScores(text)[d + 1]}}

\* C11: predict returns exactly one label per element of data, in input
\* order, results[i] being label_map at the argmax of the class scores of
\* data[i], for every batch_size >= 1 (dividing len(data) or not, larger than
\* it or not); the batches are consecutive slices of the examples that drop
\* and duplicate nothing; empty data gives an empty list.
C11_OneLabelPerExample ==
    /\ (ppc \in {"loop", "returned"}) =>
          /\ \A i \in 1..Len(data) :
                LET k == ((i - 1) \div batch_size) + 1
                    r == ((i - 1) % batch_size) + 1
                IN /\ k <= Len(batches) /\ r <= Len(batches[k])
                   /\ TextOf(batches[k][r]) = data[i]
          /\ \A k \in 1..Len(batches) :
                /\ Len(batches[k]) >= 1 /\ Len(batches[k]) <= batch_size
                /\ \A r \in 1..Len(batches[k]) : (k - 1) * batch_size + r <= Len(data)
          /\ \A i \in 1..Len(pred_results) :
                i <= Len(data) /\ pred_results[i] \in LabelsFor(data[i])
    /\ (ppc = "returned") =>
          /\ Len(pred_ret) = Len(data)
          /\ \A i \in 1..Len(data) : pred_ret[i] \in LabelsFor(data[i])
          /\ (data = <<>>) => (pred_ret = <<>>)

\* three texts in batches of two: the last batch is short
C11_Witness ==
    /\ ppc = "returned" /\ batch_size = 2
    /\ data = <<"west", "nine", "west">>
    /\ Len(batches) = 2 /\ Len(batches[2]) = 1
    /\ pred_ret = <<"showroom", "sandtable", "showroom">>

\* ======================================================================
\*  LMDBDataset.__init__ and __del__  (ernie-vil2.0/data.py 51-89, 113-117)
\* ======================================================================

\* what a path can be on disk
PathKinds == {"dir", "file", "missing"}

\* the file systems of the model: nothing exists below a path that is no directory
FileSystems ==
    {f \in [root : PathKinds, pairs : PathKinds, imgs : PathKinds,
            pairs_opens : BOOLEAN, imgs_opens : BOOLEAN, counts : BOOLEAN] :
        (f.root # "dir") => (f.pairs = "missing" /\ f.imgs = "missing")}

\* mutant: os.path.exists in the place of os.path.isdir
IsDir_Exists(kind) == kind # "missing"

\* os.path.isdir
IsDir(kind) == kind = "dir"

\* the attributes lines 72-89 set
LateAttrs == {"number_samples", "number_images", "dataset_len", "global_batch_size",
              "split", "max_txt_length", "use_augment", "transform", "tokenizer"}

InitLmdb ==
    /\ IdleOfLmdb
    /\ disk \in FileSystems
    /\ attrs = {}
    /\ opened = {}
    /\ closed = {}
    /\ lpc = "new"
    /\ lerr = NoError

\* an exception leaves __init__
LmdbRaise(type, path) ==
    /\ lerr' = [type |-> type, path |-> path]
    /\ lpc' = "raised"

\* line 52
LmdbSetPath ==
    /\ lpc = "new"
    /\ attrs' = {"lmdb_path"}
    /\ lpc' = "assert root"
    /\ UNCHANGED <<disk, opened, closed, lerr>>
    /\ UNCHANGED notLmdb

\* line 55: lmdb_path is a directory
LmdbRootIsDir ==
    /\ lpc = "assert root"
    /\ IsDir(disk.root)
    /\ lpc' = "assert pairs"
    /\ UNCHANGED <<disk, attrs, opened, closed, lerr>>
    /\ UNCHANGED notLmdb

\* line 55: the assertion fails
LmdbRootAssertFails ==
    /\ lpc = "assert root"
    /\ ~IsDir(disk.root)
    /\ LmdbRaise("AssertionError", "root")
    /\ UNCHANGED <<disk, attrs, opened, closed>>
    /\ UNCHANGED notLmdb

\* lines 56-59: lmdb_path/pairs is a directory
LmdbPairsIsDir ==
    /\ lpc = "assert pairs"
    /\ IsDir(disk.pairs)
    /\ lpc' = "assert imgs"
    /\ UNCHANGED <<disk, attrs, opened, closed, lerr>>
    /\ UNCHANGED notLmdb

\* lines 56-59: the assertion fails
LmdbPairsAssertFails ==
    /\ lpc = "assert pairs"
    /\ ~IsDir(disk.pairs)
    /\ LmdbRaise("AssertionError", "pairs")
    /\ UNCHANGED <<disk, attrs, opened, closed>>
    /\ UNCHANGED notLmdb

\* lines 60-63: lmdb_path/imgs is a directory
LmdbImgsIsDir ==
    /\ lpc = "assert imgs"
    /\ IsDir(disk.imgs)
    /\ lpc' = "open pairs"
    /\ UNCHANGED <<disk, attrs, opened, closed, lerr>>
    /\ UNCHANGED notLmdb

\* lines 60-63: the assertion fails
LmdbImgsAssertFails ==
    /\ lpc = "assert imgs"
    /\ ~IsDir(disk.imgs)
    /\ LmdbRaise("AssertionError", "imgs")
    /\ UNCHANGED <<disk, attrs, opened, closed>>
    /\ UNCHANGED notLmdb

\* lines 66-67: the pairs environment opened, its transaction begun
LmdbOpenPairs ==
    /\ lpc = "open pairs"
    /\ disk.pairs_opens
    /\ opened' = opened \cup {"env_pairs"}
    /\ attrs' = attrs \cup {"env_pairs", "txn_pairs"}
    /\ lpc' = "open imgs"
    /\ UNCHANGED <<disk, closed, lerr>>
    /\ UNCHANGED notLmdb

\* line 66: lmdb.open raises (a directory that holds no store)
LmdbOpenPairsRaises ==
    /\ lpc = "open pairs"
    /\ ~disk.pairs_opens
    /\ LmdbRaise("lmdb.Error", "pairs")
    /\ UNCHANGED <<disk, attrs, opened, closed>>
    /\ UNCHANGED notLmdb

\* lines 68-69: the imgs environment opened, its transaction begun
LmdbOpenImgs ==
    /\ lpc = "open imgs"
    /\ disk.imgs_opens
    /\ opened' = opened \cup {"env_imgs"}
    /\ attrs' = attrs \cup {"env_imgs", "txn_imgs"}
    /\ lpc' = "counts"
    /\ UNCHANGED <<disk, closed, lerr>>
    /\ UNCHANGED notLmdb

\* line 68: lmdb.open raises
LmdbOpenImgsRaises ==
    /\ lpc = "open imgs"
    /\ ~disk.imgs_opens
    /\ LmdbRaise("lmdb.Error", "imgs")
    /\ UNCHANGED <<disk, attrs, opened, closed>>
    /\ UNCHANGED notLmdb

\* lines 72-89: the counts read, the remaining attributes set
LmdbFinish ==
    /\ lpc = "counts"
    /\ disk.counts
    /\ attrs' = attrs \cup LateAttrs
    /\ lpc' = "constructed"
    /\ UNCHANGED <<disk, opened, closed, lerr>>
    /\ UNCHANGED notLmdb

\* line 72: a store without its count key (get returns None)
LmdbCountsRaise ==
    /\ lpc = "counts"
    /\ ~disk.counts
    /\ LmdbRaise("AttributeError", "pairs")
    /\ UNCHANGED <<disk, attrs, opened, closed>>
    /\ UNCHANGED notLmdb

\* __del__ (113-117), whenever the object is collected after __init__ ended
LmdbDel ==
    /\ lpc \in {"raised", "constructed"}
    /\ closed' = {e \in {"env_pairs", "env_imgs"} : e \in attrs}
    /\ lpc' = "deleted"
    /\ UNCHANGED <<disk, attrs, opened, lerr>>
    /\ UNCHANGED notLmdb

NextLmdb ==
    \/ LmdbSetPath
    \/ LmdbRootIsDir \/ LmdbRootAssertFails
    \/ LmdbPairsIsDir \/ LmdbPairsAssertFails
    \/ LmdbImgsIsDir \/ LmdbImgsAssertFails
    \/ LmdbOpenPairs \/ LmdbOpenPairsRaises
    \/ LmdbOpenImgs \/ LmdbOpenImgsRaises
    \/ LmdbFinish \/ LmdbCountsRaise
    \/ LmdbDel

SpecLmdb == InitLmdb /\ [][NextLmdb]_vars

\* ---------------------------------------------------------------- claims

\* the first of lmdb_path, lmdb_path/pairs, lmdb_path/imgs that is no
\* existing directory, or "none"
FirstNotADirectory ==
    IF disk.root # "dir" THEN "root"
    ELSE IF disk.pairs # "dir" THEN "pairs"
    ELSE IF disk.imgs # "dir" THEN "imgs"
    ELSE "none"

\* C12: the construction checks lmdb_path, lmdb_path/pairs, lmdb_path/imgs in
\* that order and fails with an AssertionError naming the first that is not
\* an existing directory; on such a failure no LMDB environment was opened
\* and no attribute beyond lmdb_path was set, so __del__ closes nothing.
C12_AssertsBeforeOpening ==
    /\ (FirstNotADirectory # "none") =>
          /\ opened = {} /\ closed = {}
          /\ lpc \notin {"open pairs", "open imgs", "counts", "constructed"}
          /\ (lpc \in {"raised", "deleted"}) =>
                /\ lerr = [type |-> "AssertionError", path |-> FirstNotADirectory]
                /\ attrs = {"lmdb_path"}
    /\ (lerr.type = "AssertionError") =>
          /\ lerr.path = FirstNotADirectory
          /\ opened = {} /\ closed = {} /\ attrs = {"lmdb_path"}
    /\ (FirstNotADirectory = "none") => lerr.type # "AssertionError"

\* lmdb_path/pairs is a file and lmdb_path/imgs is missing: the error names
\* pairs, and the object was collected
C12_Witness ==
    /\ lpc = "deleted" /\ disk.root = "dir" /\ disk.pairs = "file" /\ disk.imgs = "missing"
    /\ lerr = [type |-> "AssertionError", path |-> "pairs"]
    /\ closed = {}

\* ======================================================================
\*  MultiHeadAttention.__init__  (auto_model.py 100-147)
\* ======================================================================

\* line 135: embed_dim // num_heads, for positive operands
HeadDim(embed_dim, num_heads) == embed_dim \div num_heads

\* mutant: the product only bounded by embed_dim
HeadDimAsserted_AtMost(hd, num_heads, embed_dim) == hd * num_heads <= embed_dim

\* line 136: the condition asserted
HeadDimAsserted(hd, num_heads, embed_dim) == hd * num_heads = embed_dim

\* lines 121-122: kdim / vdim if given, else embed_dim
DimOrEmbed(dim, embed_dim) == IF dim # None THEN dim ELSE embed_dim

\* nn.Linear(in_features, out_features) stored under a name
Linear(name, in_features, out_features) ==
    [name |-> name, in_features |-> in_features, out_features |-> out_features]

MhaArgs ==
    [embed_dim : 1..MaxEmbed, num_heads : 1..MaxHeads,
     kdim : {None} \cup 1..MaxEmbed, vdim : {None} \cup 1..MaxEmbed,
     fuse_attn_qkv : BOOLEAN]

InitMha ==
    /\ IdleOfMha
    /\ mha_args \in MhaArgs
    /\ mha_self = NoSelf
    /\ mha_layers = {}
    /\ mpc = "new"
    /\ merr = "none"

\* lines 119-135: the attributes, head_dim among them
MhaSetAttrs ==
    /\ mpc = "new"
    /\ mha_self' = [kdim |-> DimOrEmbed(mha_args.kdim, mha_args.embed_dim),
                    vdim |-> DimOrEmbed(mha_args.vdim, mha_args.embed_dim),
                    head_dim |-> HeadDim(mha_args.embed_dim, mha_args.num_heads)]
    /\ mpc' = "assert head_dim"
    /\ UNCHANGED <<mha_args, mha_layers, merr>>
    /\ UNCHANGED notMha

\* line 136: the assertion holds
MhaHeadDimOk ==
    /\ mpc = "assert head_dim"
    /\ HeadDimAsserted(mha_self.head_dim, mha_args.num_heads, mha_args.embed_dim)
    /\ mpc' = "projections"
    /\ UNCHANGED <<mha_args, mha_self, mha_layers, merr>>
    /\ UNCHANGED notMha

\* line 136: the assertion fails
MhaHeadDimFails ==
    /\ mpc = "assert head_dim"
    /\ ~HeadDimAsserted(mha_self.head_dim, mha_args.num_heads, mha_args.embed_dim)
    /\ merr' = "AssertionError: embed_dim must be divisible by num_heads"
    /\ mpc' = "raised"
    /\ UNCHANGED <<mha_args, mha_self, mha_layers>>
    /\ UNCHANGED notMha

\* lines 138-139: fused, and kdim is not embed_dim
MhaFusedKdimFails ==
    /\ mpc = "projections"
    /\ mha_args.fuse_attn_qkv
    /\ mha_self.kdim # mha_args.embed_dim
    /\ merr' = "AssertionError: kdim"
    /\ mpc' = "raised"
    /\ UNCHANGED <<mha_args, mha_self, mha_layers>>
    /\ UNCHANGED notMha

\* lines 138-140: fused, kdim is embed_dim and vdim is not
MhaFusedVdimFails ==
    /\ mpc = "projections"
    /\ mha_args.fuse_attn_qkv
    /\ mha_self.kdim = mha_args.embed_dim
    /\ mha_self.vdim # mha_args.embed_dim
    /\ merr' = "AssertionError: vdim"
    /\ mpc' = "raised"
    /\ UNCHANGED <<mha_args, mha_self, mha_layers>>
    /\ UNCHANGED notMha

\* lines 138-141: the fused projection
MhaFusedProj ==
    /\ mpc = "projections"
    /\ mha_args.fuse_attn_qkv
    /\ mha_self.kdim = mha_args.embed_dim
    /\ mha_self.vdim = mha_args.embed_dim
    /\ mha_layers' = {Linear("qkv_proj", mha_args.embed_dim, 3 * mha_args.embed_dim)}
    /\ mpc' = "out_proj"
    /\ UNCHANGED <<mha_args, mha_self, merr>>
    /\ UNCHANGED notMha

\* lines 142-145: the three projections
MhaSeparateProj ==
    /\ mpc = "projections"
    /\ ~mha_args.fuse_attn_qkv
    /\ mha_layers' = {Linear("q_proj", mha_args.embed_dim, mha_args.embed_dim),
                      Linear("k_proj", mha_self.kdim, mha_args.embed_dim),
                      Linear("v_proj", mha_self.vdim, mha_args.embed_dim)}
    /\ mpc' = "out_proj"
    /\ UNCHANGED <<mha_args, mha_self, merr>>
    /\ UNCHANGED notMha

\* line 147
MhaOutProj ==
    /\ mpc = "out_proj"
    /\ mha_layers' = mha_layers \cup {Linear("out_proj", mha_args.embed_dim, mha_args.embed_dim)}
    /\ mpc' = "constructed"
    /\ UNCHANGED <<mha_args, mha_self, merr>>
    /\ UNCHANGED notMha

NextMha ==
    \/ MhaSetAttrs
    \/ MhaHeadDimOk \/ MhaHeadDimFails
    \/ MhaFusedKdimFails \/ MhaFusedVdimFails \/ MhaFusedProj
    \/ MhaSeparateProj
    \/ MhaOutProj

SpecMha == InitMha /\ [][NextMha]_vars

\* ---------------------------------------------------------------- claims

\* num_heads divides embed_dim
Divides(n, d) == \E q \in 0..d : q * n = d

\* kdim and vdim, None standing for embed_dim, are both embed_dim
KeyValueDimsAreEmbedDim ==
    /\ mha_args.kdim \in {None, mha_args.embed_dim}
    /\ mha_args.vdim \in {None, mha_args.embed_dim}

\* C14: MultiHeadAttention construction succeeds only when num_heads divides
\* embed_dim: head_dim is the floor of embed_dim / num_heads, the assertion
\* head_dim * num_heads == embed_dim fails exactly when num_heads does not
\* divide embed_dim, and then no projection layer has been created; with
\* fuse_attn_qkv the construction also requires kdim == vdim == embed_dim.
C14_HeadDimDividesEmbedDim ==
    /\ (mpc \notin {"new"}) =>
          /\ mha_self.head_dim * mha_args.num_heads <= mha_args.embed_dim
          /\ (mha_self.head_dim + 1) * mha_args.num_heads > mha_args.embed_dim
    /\ (mpc \in {"raised", "constructed"}) =>
          /\ (merr = "AssertionError: embed_dim must be divisible by num_heads")
                <=> ~Divides(mha_args.num_heads, mha_args.embed_dim)
          /\ (mpc = "constructed")
                <=> /\ Divides(mha_args.num_heads, mha_args.embed_dim)
                    /\ mha_args.fuse_attn_qkv => KeyValueDimsAreEmbedDim
    /\ (mpc = "raised") => mha_layers = {}
    /\ (~Divides(mha_args.num_heads, mha_args.embed_dim)) =>
          (mha_layers = {} /\ mpc \notin {"projections", "out_proj", "constructed"})

\* 4 = 1 * 3 + 1: the assertion failed
C14_Witness ==
    /\ mpc = "raised" /\ mha_args.embed_dim = 4 /\ mha_args.num_heads = 3
    /\ mha_self.head_dim = 1
    /\ merr = "AssertionError: embed_dim must be divisible by num_heads"

\* ======================================================================
\*  GPTModelAuto.__init__  (auto_model.py 635-731)
\* ======================================================================

\* what auto_env.get_mesh() can return: None before init_dist_env, a mesh after
Meshes == {NoMesh} \cup [set : {TRUE}, pp_degree : 1..MaxStages]

\* mutant: the mesh never found missing
MeshIsFalsy_Never(m) == FALSE

\* line 667: not auto_env.get_mesh()
MeshIsFalsy(m) == ~m.set

GptArgs == [num_layers : 0..MaxLayers, hidden_size : 1..MaxEmbed,
            num_attention_heads : 1..MaxHeads]

InitGpt ==
    /\ IdleOfGpt
    /\ mesh \in Meshes
    /\ gpt_args \in GptArgs
    /\ gpt_attrs = {}
    /\ sublayers = <<>>
    /\ gpc = "new"
    /\ gerr = "none"

\* an exception leaves __init__
GptRaise(e) ==
    /\ gerr' = e
    /\ gpc' = "raised"

\* lines 659-665
GptSetAttrs ==
    /\ gpc = "new"
    /\ gpt_attrs' = {"initializer_range", "hidden_size", "vocab_size",
                     "fused_softmax_with_triangular", "sequence_parallel"}
    /\ gpc' = "mesh"
    /\ UNCHANGED <<mesh, gpt_args, sublayers, gerr>>
    /\ UNCHANGED notGpt

\* lines 667-670: no mesh
GptNoMesh ==
    /\ gpc = "mesh"
    /\ MeshIsFalsy(mesh)
    /\ GptRaise("RuntimeError: Please call auto_env.init_dist_env(config)")
    /\ UNCHANGED <<mesh, gpt_args, gpt_attrs, sublayers>>
    /\ UNCHANGED notGpt

\* lines 667-688: a mesh, and the embeddings
GptEmbeddings ==
    /\ gpc = "mesh"
    /\ ~MeshIsFalsy(mesh)
    /\ sublayers' = Append(sublayers, "embeddings")
    /\ gpc' = "plan"
    /\ UNCHANGED <<mesh, gpt_args, gpt_attrs, gerr>>
    /\ UNCHANGED notGpt

\* line 690
LayerPerStage == gpt_args.num_layers \div mesh.pp_degree

\* lines 690-692: the stage of every layer
GptPlan ==
    /\ gpc = "plan"
    /\ gpt_args.num_layers = 0 \/ LayerPerStage # 0
    /\ gpc' = "layers"
    /\ UNCHANGED <<mesh, gpt_args, gpt_attrs, sublayers, gerr>>
    /\ UNCHANGED notGpt

\* line 691: fewer layers than stages, i // 0
GptPlanDividesByZero ==
    /\ gpc = "plan"
    /\ gpt_args.num_layers # 0 /\ LayerPerStage = 0
    /\ GptRaise("ZeroDivisionError")
    /\ UNCHANGED <<mesh, gpt_args, gpt_attrs, sublayers>>
    /\ UNCHANGED notGpt

\* the decoder layers created so far
LayersBuilt == Len(SelectSeq(sublayers, LAMBDA l : l = "decoder_layer"))

\* MultiHeadAttention(d_model, nhead, ...) of line 470 can be constructed
AttentionConstructs ==
    HeadDimAsserted(HeadDim(gpt_args.hidden_size, gpt_args.num_attention_heads),
                    gpt_args.num_attention_heads, gpt_args.hidden_size)

\* lines 693-721: one more TransformerDecoderLayer
GptDecoderLayer ==
    /\ gpc = "layers"
    /\ LayersBuilt < gpt_args.num_layers
    /\ AttentionConstructs
    /\ sublayers' = Append(sublayers, "decoder_layer")
    /\ UNCHANGED <<mesh, gpt_args, gpt_attrs, gpc, gerr>>
    /\ UNCHANGED notGpt

\* lines 694-695 -> 470 -> 136: the layer's attention cannot be constructed
GptDecoderLayerFails ==
    /\ gpc = "layers"
    /\ LayersBuilt < gpt_args.num_layers
    /\ ~AttentionConstructs
    /\ GptRaise("AssertionError: embed_dim must be divisible by num_heads")
    /\ UNCHANGED <<mesh, gpt_args, gpt_attrs, sublayers>>
    /\ UNCHANGED notGpt

\* lines 723-731
GptDecoder ==
    /\ gpc = "layers"
    /\ LayersBuilt = gpt_args.num_layers
    /\ sublayers' = Append(sublayers, "decoder")
    /\ gpc' = "constructed"
    /\ UNCHANGED <<mesh, gpt_args, gpt_attrs, gerr>>
    /\ UNCHANGED notGpt

NextGpt ==
    \/ GptSetAttrs
    \/ GptNoMesh \/ GptEmbeddings
    \/ GptPlan \/ GptPlanDividesByZero
    \/ GptDecoderLayer \/ GptDecoderLayerFails
    \/ GptDecoder

SpecGpt == InitGpt /\ [][NextGpt]_vars

\* ---------------------------------------------------------------- claims

\* C13: GPTModelAuto construction raises the RuntimeError that asks for
\* auto_env.init_dist_env(config) whenever auto_env.get_mesh() is falsy, and
\* it does so before the embeddings, any decoder layer or the decoder is
\* created: no sub-layer exists on the error path.
C13_NoMeshNoSublayers ==
    /\ (mesh = NoMesh) =>
          /\ sublayers = <<>>
          /\ gpc \in {"new", "mesh", "raised"}
          /\ (gpc = "raised") =>
                gerr = "RuntimeError: Please call auto_env.init_dist_env(config)"
    /\ (gerr = "RuntimeError: Please call auto_env.init_dist_env(config)") =>
          (mesh = NoMesh /\ sublayers = <<>> /\ gpc = "raised")

\* the error was raised for a model that would otherwise have three layers
C13_Witness ==
    /\ mesh = NoMesh /\ gpc = "raised" /\ gpt_args.num_layers = 3
    /\ gerr = "RuntimeError: Please call auto_env.init_dist_env(config)"

\* ======================================================================
\*  get_logits_processor  (auto_model.py 940-971) and the use of its list
\*  by sample._post_process_ (1145-1178)
\* ======================================================================

\* min_length may be None or any integer: {} stands for None, {n} for n
IsNone(x) == x = {}
ValueOf(x) == CHOOSE v \in x : TRUE

\* the calls: min_length absent, below, at and above the bound of line 954;
\* penalties and rates in hundredths (100 is 1.0)
LpArgs ==
    {DefaultArgs} \cup
    [ min_length : {{}, {-2}, {-1}, {0}, {2}},
      max_length : {3},
      eos_token_id : {None, 1},
      forced_bos_token_id : {None, 2},
      forced_eos_token_id : {None, 1},
      num_beams : {1, 2},
      num_beam_groups : {1, 2},
      diversity_rate : {0, 50},
      repetition_penalty : {None, 100, 120} ]

\* mutant: a min_length of 0 adds no processor
WantsMinLength_Positive(a) ==
    ~IsNone(a.min_length) /\ a.eos_token_id # None /\ ValueOf(a.min_length) > 0

\* line 954
WantsMinLength(a) ==
    ~IsNone(a.min_length) /\ a.eos_token_id # None /\ ValueOf(a.min_length) > -1

\* line 956
WantsHammingDiversity(a) == a.num_beam_groups > 1 /\ a.diversity_rate > 0

\* line 962
WantsRepetitionPenalty(a) == a.repetition_penalty # None /\ a.repetition_penalty # 100

\* line 964
WantsForcedBOS(a) == a.forced_bos_token_id # None

\* line 966
WantsForcedEOS(a) == a.forced_eos_token_id # None

\* processors.append(p) when the condition holds
AppendIf(list, cond, p) == IF cond THEN Append(list, p) ELSE list

\* get_logits_processor (940-971): the list after each of the five tests
GetLogitsProcessor(a) ==
    LET p0 == <<>>
        p1 == AppendIf(p0, WantsMinLength(a),
                       [class |-> "MinLengthLogitsProcessor",
                        args |-> <<ValueOf(a.min_length), a.eos_token_id>>])
        p2 == AppendIf(p1, WantsHammingDiversity(a),
                       [class |-> "HammingDiversityLogitsProcessor",
                        args |-> <<a.diversity_rate, a.num_beams, a.num_beam_groups>>])
        p3 == AppendIf(p2, WantsRepetitionPenalty(a),
                       [class |-> "RepetitionPenaltyLogitsProcessor",
                        args |-> <<a.repetition_penalty>>])
        p4 == AppendIf(p3, WantsForcedBOS(a),
                       [class |-> "ForcedBOSTokenLogitsProcessor",
                        args |-> <<a.forced_bos_token_id>>])
        p5 == AppendIf(p4, WantsForcedEOS(a),
                       [class |-> "ForcedEOSTokenLogitsProcessor",
                        args |-> <<a.max_length, a.forced_eos_token_id>>])
    IN p5

InitProc ==
    /\ IdleOfProc
    /\ lp_args \in LpArgs
    /\ processors = <<>>
    /\ step_log = <<>>
    /\ qpc = "call"

\* forward 1330-1340: the list is built once, before sample is called
BuildProcessors ==
    /\ qpc = "call"
    /\ processors' = GetLogitsProcessor(lp_args)
    /\ qpc' = "sample"
    /\ UNCHANGED <<lp_args, step_log>>
    /\ UNCHANGED notProc

\* what one _post_process_ does to the logits, in order: the last position
\* taken (1146), the list called on it (1149), softmax (1152-1159), the
\* filters (1160-1175), the draw (1173/1178)
PostProcessOps(list) ==
    << [op |-> "logits[:, -1, :]", list |-> <<>>],
       [op |-> "logits_processors", list |-> list],
       [op |-> "softmax", list |-> <<>>],
       [op |-> "top_k/top_p", list |-> <<>>],
       [op |-> "draw", list |-> <<>>] >>

\* one step of sample (1200-1204 or 1221-1229): sample never rebinds
\* logits_processors
PostProcess ==
    /\ qpc = "sample"
    /\ Len(step_log) < MaxDecLen
    /\ step_log' = Append(step_log, PostProcessOps(processors))
    /\ UNCHANGED <<lp_args, processors, qpc>>
    /\ UNCHANGED notProc

NextProc ==
    \/ BuildProcessors
    \/ PostProcess

SpecProc == InitProc /\ [][NextProc]_vars

\* ---------------------------------------------------------------- claims

\* the five classes in the order of the claim
ProcessorOrder ==
    << "MinLengthLogitsProcessor", "HammingDiversityLogitsProcessor",
       "RepetitionPenaltyLogitsProcessor", "ForcedBOSTokenLogitsProcessor",
       "ForcedEOSTokenLogitsProcessor" >>

\* the condition the claim gives for each class, on the arguments of the call
Included(class) ==
    CASE class = "MinLengthLogitsProcessor" ->
            /\ lp_args.min_length # {} /\ lp_args.eos_token_id # None
            /\ \A n \in lp_args.min_length : n > -1
      [] class = "HammingDiversityLogitsProcessor" ->
            lp_args.num_beam_groups > 1 /\ lp_args.diversity_rate > 0
      [] class = "RepetitionPenaltyLogitsProcessor" ->
            lp_args.repetition_penalty # None /\ lp_args.repetition_penalty # 100
      [] class = "ForcedBOSTokenLogitsProcessor" -> lp_args.forced_bos_token_id # None
      [] class = "ForcedEOSTokenLogitsProcessor" -> lp_args.forced_eos_token_id # None

ClassesOf(list) == [i \in 1..Len(list) |-> list[i].class]

\* position of an operation in a step
OpIndex(ops, name) == CHOOSE i \in 1..Len(ops) : ops[i].op = name

\* C18: get_logits_processor builds the list in the order MinLength,
\* HammingDiversity, RepetitionPenalty, ForcedBOS, ForcedEOS, each class
\* included exactly when its condition on the arguments holds; the default
\* configuration without eos_token_id gives the empty list; and every step
\* of sample calls that same list on the logits of the last position, before
\* the tokens are drawn.
C18_ProcessorsInFixedOrder ==
    (qpc = "sample") =>
        /\ ClassesOf(processors) = SelectSeq(ProcessorOrder, Included)
        /\ (lp_args = DefaultArgs) => processors = <<>>
        /\ \A k \in 1..Len(step_log) :
              LET ops == step_log[k]
                  at == OpIndex(ops, "logits_processors")
              IN /\ ops[at].list = processors
                 /\ OpIndex(ops, "logits[:, -1, :]") < at
                 /\ at < OpIndex(ops, "draw")

\* a call that includes MinLength at its bound 0, the penalty and both forced
\* tokens but not HammingDiversity, after two steps
C18_Witness ==
    /\ qpc = "sample" /\ Len(step_log) = 2
    /\ lp_args.min_length = {0} /\ lp_args.num_beam_groups = 1
    /\ ClassesOf(processors) =
          << "MinLengthLogitsProcessor", "RepetitionPenaltyLogitsProcessor",
             "ForcedBOSTokenLogitsProcessor", "ForcedEOSTokenLogitsProcessor" >>

\* ======================================================================
\*  GPTForGenerationAuto  (auto_model.py 873-1377)
\* ======================================================================

\* a [rows, cols] tensor filled with one value (paddle.full / paddle.ones * v)
Full(rows, cols, v) == [b \in 1..rows |-> [c \in 1..cols |-> v]]

BatchOf(ids) == Len(ids)
ColsOf(ids) == IF Len(ids) = 0 THEN 0 ELSE Len(ids[1])

\* the decode strategies forward() knows (lines 1265-1269)
KnownStrategies == {"greedy_search", "sampling", "beam_search"}

\* configurations and inputs the model starts from
Strategies == KnownStrategies \cup {"contrastive_search"}

\* ib rows of the longest length whose first token is 0, the id pad_token_id
\* names when it is not the eos id
LeftPadded(ib) == [b \in 1..ib |-> [c \in 1..MaxPrompt |-> IF c = 1 THEN 0 ELSE 2]]

\* prompts: ib rows of length L, or no input_ids at all
Prompts ==
    {<<>>} \cup {Full(ib, L, 2) : ib \in 1..BatchSize, L \in 1..MaxPrompt}
           \cup {LeftPadded(ib) : ib \in 1..2}

GenConfigs ==
    { c \in [ max_dec_len : 0..MaxDecLen,
              decode_strategy : Strategies,
              early_finish : BOOLEAN,
              top_p : {90, 100},
              use_topp_sampling : BOOLEAN,
              bos_token_id : {None, 2},
              eos_token_id : {None, 1},
              pad_token_id : {None, 0, 1},
              num_return_sequences : 1..BatchSize,
              use_cache : BOOLEAN ] :
        \* pad_token_id is only read when eos_token_id is defined (line 1183);
        \* then it is a token id, the dedicated one or the eos id itself
        /\ (c.eos_token_id = None) => (c.pad_token_id \in {None, 0})
        /\ (c.eos_token_id # None) => (c.pad_token_id # None)
        \* top_p is only a control-flow input with use_topp_sampling
        /\ (~c.use_topp_sampling) => (c.top_p = 100)
        \* the strategies that raise do so whatever the rest is
        /\ (c.decode_strategy # "sampling") =>
              /\ c.max_dec_len = MaxDecLen /\ c.early_finish /\ ~c.use_topp_sampling
              /\ c.eos_token_id = None /\ c.pad_token_id = None
              /\ c.num_return_sequences = 1 /\ c.use_cache }

InitGen ==
    /\ IdleOfGen
    /\ configs \in GenConfigs
    /\ ops_installed \in BOOLEAN
    /\ (~configs.use_topp_sampling \/ configs.top_p = 100) => ~ops_installed
    /\ input_ids \in Prompts
    /\ BatchOf(input_ids) * configs.num_return_sequences <= BatchSize
    \* bos_token_id is only used when no input_ids are passed (1289-1291)
    /\ (input_ids # <<>>) => configs.bos_token_id = None
    \* use_cache only reaches self.gpt (lines 1128-1133): calls without a cache
    \* are made with the plain draw, early_finish on, a prompt supplied and
    \* one returned sequence per prompt row
    /\ (~configs.use_cache) =>
          /\ configs.early_finish /\ ~configs.use_topp_sampling
          /\ input_ids # <<>> /\ configs.num_return_sequences = 1
    \* token 0 in a prompt is a pad token only when pad_token_id names it
    /\ (input_ids \in {LeftPadded(ib) : ib \in 1..2}) =>
          configs.pad_token_id = 0
    /\ pc = "forward"
    /\ res = <<>>
    /\ unfinished_flag = <<>>
    /\ cur_len = 0
    /\ origin_len = 0
    /\ max_length = 0
    /\ nForward = 0
    /\ nSteps = 0
    /\ sampleCalls = 0
    /\ err = "none"
    /\ ret = <<>>
    /\ model_inputs = NoInputs
    /\ attention_mask = <<>>
    /\ position_ids = <<>>
    /\ cache = None
    /\ drawn = <<>>

\* forward() leaves with an exception: nothing else changes
Raise(e) ==
    /\ pc' = "raised"
    /\ err' = e
    /\ UNCHANGED <<configs, ops_installed, input_ids, res, unfinished_flag, cur_len,
                   origin_len, max_length, nForward, nSteps, sampleCalls, ret, kwargsVars>>
    /\ UNCHANGED notGen

\* lines 1265-1271: the assertion on decode_strategy
StrategyAsserted(s) == s \in KnownStrategies

\* mutant: greedy_search dispatched to sample as well
StrategyGenerates_Greedy(s) == s \in {"sampling", "greedy_search"}

\* lines 1342, 1375: the only strategy that reaches self.sample
StrategyGenerates(s) == s = "sampling"

\* expand_inputs_for_generation (973-1002): every row repeated expand_size times
ExpandInputs(ids, expand_size) ==
    [k \in 1..(Len(ids) * expand_size) |-> ids[((k - 1) \div expand_size) + 1]]

\* lines 1289-1291 with prepare_input_ids_for_generation (912-918)
PreparedInputIds(ids, bos) == IF ids = <<>> THEN Full(1, 1, bos) ELSE ids

\* lines 1325-1327: max_len = max_length + input_len
MaxLen(ids, mdl) == mdl + ColsOf(ids)

\* prepare_attention_mask_for_generation (920-931): a [batch, 1, 1, cols]
\* tensor, 0.0 where a token may be attended and -1e9 on the pad tokens
PrepareAttentionMask(ids, pad, eos) ==
    LET is_pad_token_in_inputs_ids ==
            /\ pad # None
            /\ \E b \in 1..Len(ids) : \E c \in 1..Len(ids[b]) : ids[b][c] = pad
        is_pad_token_not_equal_to_eos_token_id == eos = None \/ pad # eos
    IN [b \in 1..Len(ids) |->
          << [c \in 1..Len(ids[b]) |->
                IF /\ is_pad_token_in_inputs_ids
                   /\ is_pad_token_not_equal_to_eos_token_id
                   /\ ids[b][c] = pad
                  THEN "-1e9" ELSE "0.0"] >>]

\* paddle.arange(0, n)
Arange(n) == [c \in 1..n |-> c - 1]

\* forward 1300-1303: arange(0, attention_mask.shape[-1]).unsqueeze(0)
InitialPositionIds(mask) == << Arange(Len(mask[1][1])) >>

\* expand_inputs_for_generation 975: every row index repeated expand_size times
ExpandIndex(batch, expand_size) ==
    [k \in 1..(batch * expand_size) |-> (k - 1) \div expand_size]

\* paddle.gather(x, index)
Gather(x, index) == [k \in 1..Len(index) |-> x[index[k] + 1]]

\* forward(), line 1265: the assertion fails
ForwardAssertFails ==
    /\ pc = "forward"
    /\ ~StrategyAsserted(configs.decode_strategy)
    /\ Raise("AssertionError")

\* forward(), line 1291 -> 915: no input_ids and no bos_token_id
ForwardNoBos ==
    /\ pc = "forward"
    /\ StrategyAsserted(configs.decode_strategy)
    /\ input_ids = <<>> /\ configs.bos_token_id = None
    /\ Raise("ValueError: bos_token_id")

\* forward(), line 1376: a known strategy that is not implemented
ForwardUnsupported ==
    /\ pc = "forward"
    /\ StrategyAsserted(configs.decode_strategy)
    /\ ~(input_ids = <<>> /\ configs.bos_token_id = None)
    /\ ~StrategyGenerates(configs.decode_strategy)
    /\ Raise("ValueError: Not support")

\* forward(), lines 1342-1374 and sample() 1112-1129: the call of self.sample
\* and its set-up before the first model call
ForwardCallsSample ==
    /\ pc = "forward"
    /\ StrategyAsserted(configs.decode_strategy)
    /\ ~(input_ids = <<>> /\ configs.bos_token_id = None)
    /\ StrategyGenerates(configs.decode_strategy)
    /\ LET prepared == PreparedInputIds(input_ids, configs.bos_token_id)
           ids == IF configs.num_return_sequences > 1
                    THEN ExpandInputs(prepared, configs.num_return_sequences)
                    ELSE prepared
       IN /\ input_ids' = ids
          /\ max_length' = MaxLen(prepared, configs.max_dec_len)
          /\ cur_len' = ColsOf(ids)
          /\ origin_len' = ColsOf(ids)
          /\ unfinished_flag' = [b \in 1..BatchOf(ids) |-> TRUE]
          /\ res' = ids
          /\ LET mask == PrepareAttentionMask(prepared, configs.pad_token_id,
                                               configs.eos_token_id)
                 positions == InitialPositionIds(mask)
                 index == ExpandIndex(BatchOf(prepared), configs.num_return_sequences)
             IN IF configs.num_return_sequences > 1
                  THEN /\ attention_mask' = Gather(mask, index)
                       /\ position_ids' = Gather(positions, index)
                  ELSE /\ attention_mask' = mask
                       /\ position_ids' = positions
    /\ cache' = None
    /\ sampleCalls' = sampleCalls + 1
    /\ pc' = "pre_while"
    /\ UNCHANGED <<configs, ops_installed, nForward, nSteps, err, ret, model_inputs, drawn>>
    /\ UNCHANGED notGen

\* _post_process_ 1182-1183: finished rows get pad_token_id
NextTokens(sampled, unfinished, eos, pad) ==
    [b \in 1..Len(sampled) |->
        IF eos # None /\ ~unfinished[b] THEN pad ELSE sampled[b]]

\* mutant: the flag recomputed from the appended token alone
UnfinishedAfter_Reset(next_tokens, unfinished, eos) ==
    [b \in 1..Len(next_tokens) |->
        IF eos # None THEN next_tokens[b] # eos ELSE unfinished[b]]

\* _post_process_ 1189-1190
UnfinishedAfter(next_tokens, unfinished, eos) ==
    [b \in 1..Len(next_tokens) |->
        IF eos # None THEN unfinished[b] /\ next_tokens[b] # eos ELSE unfinished[b]]

\* update_model_kwargs_for_generation 1063: res = concat([res, next_tokens], axis=1)
ConcatCol(r, next_tokens) == [b \in 1..Len(r) |-> Append(r[b], next_tokens[b])]

\* line 1242: res[:, origin_len:]
SliceFrom(r, from) == [b \in 1..Len(r) |-> SubSeq(r[b], from + 1, Len(r[b]))]

\* lines 1162-1178: which way the next tokens are drawn
TokenDraw ==
    IF configs.use_topp_sampling
      THEN IF configs.top_p < 100
             THEN IF ops_installed THEN "topp_sampling" ELSE "ImportError"
             ELSE "UnboundLocalError"
      ELSE "multinomial"

\* mutant: the loop test made inclusive
LoopTest_Inclusive(cl, ml) == cl <= ml

\* line 1217: the loop test
LoopTest(cl, ml) == cl < ml

\* line 1239: the early-finish test made at the end of a loop iteration
EarlyBreak(early, unfinished) == early /\ \A b \in 1..Len(unfinished) : ~unfinished[b]

\* the last row of a [batch, 1, rows, cols] mask: attention_mask[:, -1, -1, :]
LastRow(mask) == [b \in 1..Len(mask) |-> mask[b][Len(mask[b])]]

\* _forward_ 1132 with prepare_inputs_for_generation (1004-1013): the ids are
\* the input_ids of sample's scope, whatever cache is
PrepareInputs(ids, positions, mask, kv) ==
    [input_ids |-> ids, position_ids |-> positions,
     attention_mask |-> LastRow(mask), cache |-> kv]

\* the cache self.gpt returns (MultiHeadAttention._prepare_qkv 185-192,
\* TransformerDecoder.forward 402): with use_cache the keys of the fed columns
\* appended to those of the cache passed in; no cache without use_cache
\* (update_model_kwargs_for_generation 1023-1024, sample 1215)
CacheAfter(inputs, use) ==
    IF use
      THEN (IF inputs.cache = None THEN 0 ELSE inputs.cache) + ColsOf(inputs.input_ids)
      ELSE None

\* mutant: the position not advanced
NextPositionIds_Same(positions) ==
    [b \in 1..Len(positions) |-> <<positions[b][Len(positions[b])]>>]

\* update_model_kwargs_for_generation 1032-1034: position_ids[:, -1:] + 1
NextPositionIds(positions) ==
    [b \in 1..Len(positions) |-> <<positions[b][Len(positions[b])] + 1>>]

\* update_model_kwargs_for_generation 1042-1049 on a float mask: the last row
\* replicated below, a -1e4 column added on the right, the new corner set to 0.0
NextAttentionMask(mask) ==
    [b \in 1..Len(mask) |->
        LET replicated == Append(mask[b], mask[b][Len(mask[b])])
        IN [r \in 1..Len(replicated) |->
              Append(replicated[r], IF r = Len(replicated) THEN "0.0" ELSE "-1e4")]]

\* one _forward_ followed by one _post_process_ and the increment of cur_len
\* (1200-1210 before the loop, 1221-1235 inside it)
DecodeStep(sampled) ==
    LET next_tokens == NextTokens(sampled, unfinished_flag, configs.eos_token_id,
                                  configs.pad_token_id)
    IN /\ nForward' = nForward + 1
       /\ nSteps' = nSteps + 1
       /\ input_ids' = [b \in 1..Len(next_tokens) |-> <<next_tokens[b]>>]
       /\ unfinished_flag' = UnfinishedAfter(next_tokens, unfinished_flag, configs.eos_token_id)
       /\ res' = ConcatCol(res, next_tokens)
       /\ cur_len' = cur_len + 1
       /\ model_inputs' = PrepareInputs(input_ids, position_ids, attention_mask, cache)
       /\ cache' = CacheAfter(model_inputs', configs.use_cache)
       /\ position_ids' = NextPositionIds(position_ids)
       /\ attention_mask' = NextAttentionMask(attention_mask)
       /\ drawn' = sampled

\* 1200: the model call succeeded, 1165-1180: drawing the tokens raised
DecodeStepRaises(e) ==
    /\ nForward' = nForward + 1
    /\ model_inputs' = PrepareInputs(input_ids, position_ids, attention_mask, cache)
    /\ pc' = "raised"
    /\ err' = e
    /\ UNCHANGED <<configs, ops_installed, input_ids, res, unfinished_flag, cur_len,
                   origin_len, max_length, nSteps, sampleCalls, ret,
                   attention_mask, position_ids, cache, drawn>>
    /\ UNCHANGED notGen

\* sample() 1198-1216: the step made before the loop ("do" of the do-while)
SamplePreWhile ==
    /\ pc = "pre_while"
    /\ TokenDraw \in {"multinomial", "topp_sampling"}
    /\ \E sampled \in [1..BatchOf(input_ids) -> SampleIds] : DecodeStep(sampled)
    /\ pc' = "while"
    /\ UNCHANGED <<configs, ops_installed, origin_len, max_length, sampleCalls, err, ret>>
    /\ UNCHANGED notGen

SamplePreWhileRaises ==
    /\ pc = "pre_while"
    /\ TokenDraw \notin {"multinomial", "topp_sampling"}
    /\ DecodeStepRaises(TokenDraw)

\* sample() 1217-1240: one iteration of the while loop
SampleLoopStep ==
    /\ pc = "while"
    /\ LoopTest(cur_len, max_length)
    /\ \E sampled \in [1..BatchOf(input_ids) -> SampleIds] : DecodeStep(sampled)
    /\ pc' = IF EarlyBreak(configs.early_finish, unfinished_flag') THEN "return" ELSE "while"
    /\ UNCHANGED <<configs, ops_installed, origin_len, max_length, sampleCalls, err, ret>>
    /\ UNCHANGED notGen

\* sample() 1217: the loop test fails
SampleLoopExit ==
    /\ pc = "while"
    /\ ~LoopTest(cur_len, max_length)
    /\ pc' = "return"
    /\ UNCHANGED <<configs, ops_installed, input_ids, res, unfinished_flag, cur_len,
                   origin_len, max_length, nForward, nSteps, sampleCalls, err, ret, kwargsVars>>
    /\ UNCHANGED notGen

\* sample() 1242 and forward() 1377
SampleReturn ==
    /\ pc = "return"
    /\ ret' = SliceFrom(res, origin_len)
    /\ pc' = "returned"
    /\ UNCHANGED <<configs, ops_installed, input_ids, res, unfinished_flag, cur_len,
                   origin_len, max_length, nForward, nSteps, sampleCalls, err, kwargsVars>>
    /\ UNCHANGED notGen

NextGen ==
    \/ ForwardAssertFails
    \/ ForwardNoBos
    \/ ForwardUnsupported
    \/ ForwardCallsSample
    \/ SamplePreWhile
    \/ SamplePreWhileRaises
    \/ SampleLoopStep
    \/ SampleLoopExit
    \/ SampleReturn

SpecGen == InitGen /\ [][NextGen]_vars

SpecData == InitData /\ [][NextData]_vars

\* forward() is sequential code: a step that can be taken is taken
SpecGenFair == SpecGen /\ WF_vars(NextGen)

\* ---------------------------------------------------------------- claims

Terminated == pc \in {"raised", "returned"}

NoDecoding == nForward = 0 /\ nSteps = 0 /\ sampleCalls = 0 /\ ret = <<>>

InputGiven == input_ids # <<>> \/ configs.bos_token_id # None

\* C1: forward() generates only when decode_strategy is "sampling". A strategy
\* outside the three known ones fails the assertion; "greedy_search" and
\* "beam_search" (on a call that supplies input_ids or a bos_token_id) raise
\* ValueError("Not support ... strategy yet!"); in every such error case the
\* error leaves forward() and no call of sample and no model forward was made.
C1_OnlySamplingGenerates ==
    /\ (sampleCalls > 0 \/ nForward > 0 \/ nSteps > 0 \/ pc \notin {"forward", "raised"})
          => configs.decode_strategy = "sampling"
    /\ (Terminated /\ configs.decode_strategy \notin KnownStrategies)
          => (pc = "raised" /\ err = "AssertionError" /\ NoDecoding)
    /\ (Terminated /\ configs.decode_strategy \in {"greedy_search", "beam_search"})
          => /\ pc = "raised" /\ NoDecoding
             /\ InputGiven => err = "ValueError: Not support"
    /\ (err \in {"AssertionError", "ValueError: Not support", "ValueError: bos_token_id"})
          => (pc = "raised" /\ NoDecoding)

C1_Witness ==
    /\ pc = "raised" /\ err = "ValueError: Not support"
    /\ configs.decode_strategy = "beam_search"

\* C1 as stated, for any call: "greedy_search" and "beam_search" always end in
\* ValueError("Not support ... strategy yet!") with no decoding step made.
C1_Original ==
    (Terminated /\ configs.decode_strategy \in {"greedy_search", "beam_search"})
        => (pc = "raised" /\ err = "ValueError: Not support" /\ NoDecoding)

Max(a, b) == IF a >= b THEN a ELSE b

\* what every state of a sample() call satisfies
StepBounds ==
    /\ nSteps <= Max(1, configs.max_dec_len)
    /\ (pc \in {"while", "return", "returned"}) => nSteps >= 1
    /\ (sampleCalls > 0) =>
          /\ max_length = origin_len + configs.max_dec_len
          /\ cur_len = origin_len + nSteps
          /\ \A b \in 1..Len(res) : Len(res[b]) = origin_len + nSteps
          /\ Len(res) = Len(unfinished_flag)
    /\ (pc = "returned") =>
          /\ Len(ret) = Len(res)
          /\ \A b \in 1..Len(ret) : Len(ret[b]) = nSteps

\* C5: sample() is a do-while loop. The step before the loop is made before
\* the length bound is tested, and the step is repeated while
\* cur_len < max_length = prompt length + max_dec_len. So every call
\* terminates, a call that returns has made at least 1 and at most
\* max(1, max_dec_len) steps, every step appended one token to every row, and
\* the returned matrix has as many columns as steps were made.
C5_DoWhileTerminates == []StepBounds /\ <>Terminated

C5_Witness ==
    /\ pc = "returned" /\ configs.max_dec_len = 0 /\ nSteps = 1
    /\ Len(ret) = BatchSize /\ Len(ret[1]) = 1

AllFinished == \A b \in 1..Len(unfinished_flag) : ~unfinished_flag[b]

\* C6: with early_finish enabled and eos_token_id defined, sample() makes no
\* further decoding step after a step that left every row finished (also
\* when that step was the first one); with early_finish disabled it runs
\* until cur_len reaches max_length.
C6_NoStepAfterAllFinished ==
    /\ [][ ( /\ configs.early_finish /\ configs.eos_token_id # None
             /\ nSteps >= 1 /\ AllFinished )
           => (nSteps' = nSteps /\ nForward' = nForward) ]_vars
    /\ []( (~configs.early_finish /\ pc \in {"return", "returned"})
              => cur_len >= max_length )

\* the case C6 is about: every row emitted eos at the first step
C6_Witness ==
    /\ configs.early_finish /\ configs.eos_token_id # None
    /\ nSteps = 1 /\ AllFinished /\ configs.max_dec_len >= 2

\* the rows of the call of sample
Rows == 1..Len(unfinished_flag)

LastToken(r, b) == r[b][Len(r[b])]

\* a step of _post_process_ completes
StepMade == nSteps' = nSteps + 1

\* C15: in sample() with eos_token_id defined, every row's unfinished flag is
\* True when the call starts; a step turns the flag of an unfinished row to
\* False exactly when the token it appends to that row is eos_token_id (the
\* drawn token, which is kept in res); the flag of a finished row stays
\* False, and every later step appends pad_token_id to that row whatever
\* token was drawn for it.
C15_FinishedRowsArePadded ==
    /\ [](pc = "pre_while" => \A b \in Rows : unfinished_flag[b])
    /\ [][ (configs.eos_token_id # None /\ StepMade) =>
             \A b \in Rows :
                /\ unfinished_flag[b] =>
                      /\ LastToken(res', b) = drawn'[b]
                      /\ unfinished_flag'[b] = (drawn'[b] # configs.eos_token_id)
                /\ ~unfinished_flag[b] =>
                      /\ LastToken(res', b) = configs.pad_token_id
                      /\ ~unfinished_flag'[b]
                /\ SubSeq(res'[b], 1, Len(res[b])) = res[b] ]_vars

\* a row that emitted eos at the first step, and whose second step drew an
\* ordinary token and appended the pad token instead
C15_Witness ==
    /\ configs.eos_token_id = 1 /\ configs.pad_token_id = 0
    /\ nSteps = 2 /\ Len(res) = 2 /\ origin_len = 1
    /\ res[1] = <<2, 1, 0>> /\ drawn[1] = 2 /\ ~unfinished_flag[1]
    /\ unfinished_flag[2]

\* tokens sample() had generated when it made its latest call of self.gpt
GeneratedBefore == nForward - 1

\* the sequence of row b at the latest call of self.gpt
SequenceOf(b) == SubSeq(res[b], 1, origin_len + GeneratedBefore)

\* positions held by the cache the latest call was given
HeldBy(inputs) == IF inputs.cache = None THEN 0 ELSE inputs.cache

\* C16: at every call of self.gpt the model is conditioned on the whole
\* sequence so far: input_ids is the last token of every row if a cache is
\* passed and the full sequence otherwise, so that, with use_cache True and
\* False, positions held in the cache + columns of input_ids = prompt length
\* + tokens generated so far.
C16_ConditionedOnWholeSequence ==
    (nForward >= 1) =>
        /\ HeldBy(model_inputs) + ColsOf(model_inputs.input_ids)
              = origin_len + GeneratedBefore
        /\ \A b \in 1..Len(res) :
              model_inputs.input_ids[b] =
                  IF model_inputs.cache # None
                    THEN <<LastToken(<<SequenceOf(b)>>, 1)>>
                    ELSE SequenceOf(b)

\* the second call of self.gpt without a cache: a prompt of two tokens and one
\* generated token, of which only the generated one is passed
C16_Witness ==
    /\ ~configs.use_cache /\ nForward = 2 /\ origin_len = 2
    /\ model_inputs.cache = None
    /\ ColsOf(model_inputs.input_ids) = 1

\* the steps sample() has completed, when at least one was
StepsDone == pc \in {"while", "return", "returned"}

\* C17: from forward() with a prompt of L tokens and no attention_mask or
\* position_ids passed by the caller, after every step k >= 1 of sample()
\* model_kwargs["res"] has L + k columns, the last dimension of
\* model_kwargs["attention_mask"] is L + k and its newest column can be
\* attended by the newest query, and model_kwargs["position_ids"] holds, for
\* every row, the single position L + k - 1.
C17_KwargsFollowTheSequence ==
    StepsDone =>
        /\ nSteps >= 1
        /\ \A b \in 1..Len(res) : Len(res[b]) = origin_len + nSteps
        /\ Len(attention_mask) = Len(res)
        /\ \A b \in 1..Len(attention_mask) :
              /\ \A r \in 1..Len(attention_mask[b]) :
                    Len(attention_mask[b][r]) = origin_len + nSteps
              /\ LastToken(LastRow(attention_mask), b) = "0.0"
        /\ \A b \in 1..Len(position_ids) : position_ids[b] = <<origin_len + nSteps - 1>>

\* two steps on a left-padded prompt of two tokens
C17_Witness ==
    /\ pc = "while" /\ nSteps = 2 /\ origin_len = 2
    /\ configs.pad_token_id = 0
    /\ LastRow(attention_mask) = << <<"-1e9", "0.0", "0.0", "0.0">> >>
    /\ position_ids = << <<3>> >>
    /\ Len(res[1]) = 4

====
